---- MODULE Spec2Model ----
(***************************************************************************)
(* Generation / extraction orchestration of the headless infographic       *)
(* generator.                                                              *)
(*                                                                         *)
(*   Spec     the API pipeline: POST /generate-infographics                *)
(*            (src/src/api_headless_infographic.py) together with the      *)
(*            extractor subprocess it launches (src/src/svg_extractor.py)  *)
(*   SpecCLI  the CLI pipeline: main_d3_parallel_headless                  *)
(*            (src/src/main_d3_parallel_headless.py)                       *)
(*   SpecBatches      two invocations of the endpoint side by side         *)
(*   SpecNormalize    what the extractors write for a given outerHTML      *)
(*   SpecRenormalize  the normalization given normalized text              *)
(*   SpecReadBack     the artifact written, read back and measured         *)
(*   SpecFences       the fences removed from the collaborator's text      *)
(*                                                                         *)
(* Time is counted in whole seconds by the variable now.  Text is a        *)
(* sequence of tokens; a token is a string or a number.                    *)
(***************************************************************************)
EXTENDS Integers, Sequences, FiniteSets, TLC

VARIABLES
    now,            \* wall clock, seconds
    pc,             \* position of the request handler generate_infographics
    request,        \* the InfographicRequest received
    start_time,     \* generate_infographics: start_time
    topic,          \* generate_infographics: topic = request.prompt.strip()
    output_dir,     \* the batch directory created under "generated", or NoFile
    variant_dirs,   \* slots whose directory variant_<i+1> exists
    html_files,     \* slots whose infographic.html has been written
    svg_files,      \* slot -> content of infographic.svg, or NoFile
    gen,            \* slot -> state of the generation task (a pool thread)
    html_results,   \* generate_infographics: html_results
    ex_i,           \* extract_svgs_sequential: loop index i
    svg_results,    \* extract_svgs_sequential: svg_results
    proc,           \* slot -> the extractor subprocess of the slot
    ex_log,         \* the subprocesses started: list position, slot, start, end
    worker_said,    \* slot -> the (success, message) extract_svg returned
    resp,           \* what the endpoint delivers: a response or an HTTPException
    cli,            \* CLI: slot -> state of the worker thread
    cli_results,    \* CLI: main_d3_parallel_headless: results
    cli_ret,        \* CLI: the tuple main_d3_parallel_headless returns
    outer_html,     \* normalisation: the svg element's outerHTML in the page
    artifact,       \* normalisation: the text written to infographic.svg
    writer,         \* normalisation: which worker wrote artifact, or "none"
    linesep,        \* read-back: os.linesep of the platform the service runs on
    entry,          \* read-back: the entry the scheduler builds from artifact
    batches,        \* invocation -> state of one invocation of the endpoint
    response_text,  \* fences: response.text of a generate_content call
    final_code,     \* fences: the text the collaborator's wrapper returns
    fence_pc        \* fences: which wrapper has returned, or "called"

api_vars == <<pc, request, start_time, topic, output_dir, variant_dirs, html_files,
              svg_files, gen, html_results, ex_i, svg_results, proc, ex_log,
              worker_said, resp>>
cli_vars == <<cli, cli_results, cli_ret>>
norm_vars == <<outer_html, artifact, writer, linesep, entry>>
batch_vars == <<batches>>
fence_vars == <<response_text, final_code, fence_pc>>
vars == <<now, api_vars, cli_vars, norm_vars, batch_vars, fence_vars>>

Null == "null"

\* Python's None, as a generation task's result
PyNone == [status |-> "None"]

\* no file, no directory
NoFile == <<>>

(***************************************************************************)
(* Program constants                                                       *)
(***************************************************************************)
NumVariants == 3
StaggerAPI == 3
StaggerCLI == 5
SubprocessTimeout == 120
SettleDelay == 3
RetryDelay == 5
SvgSettleDelay == 2
GotoTimeout == 30
SelectorTimeout == 15
MinChildren == 5

(***************************************************************************)
(* Bounds of the model                                                     *)
(***************************************************************************)
MaxTopicLen == 1
MaxGenTime == 1
MaxChildren == 5

Slots == 0 .. (NumVariants - 1)

(***************************************************************************)
(* request.prompt.strip()                                                  *)
(***************************************************************************)
Chars == {" ", "a"}

Prompts == UNION {[1 .. n -> Chars] : n \in 0 .. MaxTopicLen}

RECURSIVE LStrip(_)
LStrip(s) == IF s # <<>> /\ Head(s) = " " THEN LStrip(Tail(s)) ELSE s

RECURSIVE RStrip(_)
RStrip(s) ==
    IF s # <<>> /\ s[Len(s)] = " " THEN RStrip(SubSeq(s, 1, Len(s) - 1)) ELSE s

\* mutant: the prompt is taken as it comes
Strip_None(s) == s

Strip(s) == RStrip(LStrip(s))


(***************************************************************************)
(* Text                                                                    *)
(***************************************************************************)
Contains(text, token) == \E j \in 1 .. Len(text) : text[j] = token

\* text.split(sep)[1]: what follows the first sep, up to the next one
RECURSIVE UpTo(_, _)
UpTo(text, sep) ==
    IF text = <<>> \/ Head(text) = sep THEN <<>>
    ELSE <<Head(text)>> \o UpTo(Tail(text), sep)

RECURSIVE SplitSecond(_, _)
SplitSecond(text, sep) ==
    IF text = <<>> THEN <<>>
    ELSE IF Head(text) = sep THEN UpTo(Tail(text), sep)
    ELSE SplitSecond(Tail(text), sep)

\* mutant: every slot is given the directory of the first one
VariantName_Shared(slot) == <<"variant_", "1">>

\* f"variant_{variant_id+1}"
VariantName(slot) == <<"variant_", ToString(slot + 1)>>

XmlDeclaration == <<"<?xml version=\"1.0\" encoding=\"UTF-8\"?>\n">>

XmlnsAttr == " xmlns=\"http://www.w3.org/2000/svg\""

\* what svgClone.outerHTML can evaluate to, the clone having been given the
\* xmlns attribute; <<>> stands for null / ""
Markups == {<<>>, <<"<svg", XmlnsAttr, ">", "</svg>">>}

Base64(text) == <<"base64">> \o text

(***************************************************************************)
(* What the endpoint delivers                                              *)
(***************************************************************************)
HTTPException(status_code, detail) ==
    [kind |-> "HTTPException", status_code |-> status_code, detail |-> detail]

InfographicResponse(success, message, variants, generation_time, dir) ==
    [kind |-> "InfographicResponse", success |-> success, message |-> message,
     variants |-> variants, generation_time |-> generation_time,
     output_directory |-> dir]

NoResponse == [kind |-> "none"]

(***************************************************************************)
(* Initial state                                                           *)
(***************************************************************************)
Outcome(success, message) == [success |-> success, message |-> message]

\* svg_info: null, or the number of direct children of the svg element
NoSvgInfo == [present |-> FALSE, children |-> 0]

SvgInfos == {NoSvgInfo} \cup {[present |-> TRUE, children |-> c] : c \in 0 .. MaxChildren}

GenNew ==
    [pc |-> "new", elements |-> Null, d3_code |-> <<>>, result |-> PyNone,
     collected |-> FALSE]

\* trail lists the verdicts of the readiness tests in the order the worker
\* reached them; d3_log lists the runtime checks with their times
ProcOff ==
    [pc |-> "off", start |-> 0, browser |-> "none", d3_checks |-> 0,
     svg_info |-> NoSvgInfo, content |-> <<>>, result |-> Outcome(FALSE, <<>>),
     returncode |-> -1, stdout |-> <<>>, stderr |-> <<>>,
     trail |-> <<>>, d3_log |-> <<>>, output_svg |-> <<>>, closes |-> 0]

CliNew ==
    [pc |-> "new", wake |-> 0, content |-> <<>>, ok |-> FALSE,
     result |-> PyNone, collected |-> FALSE]

ApiInit ==
    /\ pc = "idle"
    /\ request = [prompt |-> <<>>]
    /\ start_time = 0
    /\ topic = <<>>
    /\ output_dir = NoFile
    /\ variant_dirs = {}
    /\ html_files = {}
    /\ svg_files = [i \in Slots |-> NoFile]
    /\ gen = [i \in Slots |-> GenNew]
    /\ html_results = <<>>
    /\ ex_i = 0
    /\ svg_results = <<>>
    /\ proc = [i \in Slots |-> ProcOff]
    /\ ex_log = <<>>
    /\ worker_said = [i \in Slots |-> <<>>]
    /\ resp = NoResponse

CliIdle ==
    /\ cli = [i \in Slots |-> CliNew]
    /\ cli_results = <<>>
    /\ cli_ret = <<>>

\* the entry of svg_results not built yet
NoEntry ==
    [built |-> FALSE, svg_content_base64 |-> <<>>, file_size |-> 0, message |-> <<>>]

NormIdle ==
    /\ outer_html = <<>>
    /\ artifact = <<>>
    /\ writer = "none"
    /\ linesep = "\n"
    /\ entry = NoEntry

\* no generate_content call has been made
FenceIdle ==
    /\ response_text = <<>>
    /\ final_code = <<>>
    /\ fence_pc = "called"

Invocations == {"A", "B"}

\* an invocation of the endpoint that has not been received yet
BatchNew ==
    [pc |-> "idle", body |-> [prompt |-> <<>>, variant_count |-> 0], topic |-> <<>>,
     output_dir |-> NoFile, tasks |-> {}, collected |-> {}]

BatchesIdle == batches = [b \in Invocations |-> BatchNew]

Init == now = 0 /\ ApiInit /\ CliIdle /\ NormIdle /\ BatchesIdle /\ FenceIdle

(***************************************************************************)
(* generate_infographics: validation and the batch directory               *)
(***************************************************************************)
Request(prompt) ==
    /\ pc = "idle"
    /\ request' = [prompt |-> prompt]
    /\ start_time' = now
    /\ topic' = Strip(prompt)
    /\ pc' = "validate"
    /\ UNCHANGED <<now, output_dir, variant_dirs, html_files, svg_files, gen,
                   html_results, ex_i, svg_results, proc, ex_log, worker_said,
                   resp, cli_vars, norm_vars, batch_vars, fence_vars>>

\* mutant: without 'except HTTPException: raise' the 400 is caught by the
\* generic handler
RejectEmpty_Rewritten ==
    /\ pc = "validate"
    /\ topic = <<>>
    /\ resp' = HTTPException(500, "Internal server error")
    /\ pc' = "done"
    /\ UNCHANGED <<now, request, start_time, topic, output_dir, variant_dirs, html_files,
                   svg_files, gen, html_results, ex_i, svg_results, proc,
                   ex_log, worker_said, cli_vars, norm_vars, batch_vars, fence_vars>>

\* lines 310-311
RejectEmpty ==
    /\ pc = "validate"
    /\ topic = <<>>
    /\ resp' = HTTPException(400, "Prompt cannot be empty")
    /\ pc' = "done"
    /\ UNCHANGED <<now, request, start_time, topic, output_dir, variant_dirs, html_files,
                   svg_files, gen, html_results, ex_i, svg_results, proc,
                   ex_log, worker_said, cli_vars, norm_vars, batch_vars, fence_vars>>

BatchName(prefix, timestamp, t) == <<prefix, timestamp, t>>

InternalServerError == HTTPException(500, "Internal server error")

\* lines 316-324; mkdir raising is caught by the generic handler (393-398)
CreateOutputDir ==
    /\ pc = "validate"
    /\ topic # <<>>
    /\ \/ /\ output_dir' = BatchName("api_batch", now, topic)
          /\ pc' = "submit"
          /\ resp' = resp
       \/ /\ output_dir' = output_dir
          /\ pc' = "done"
          /\ resp' = InternalServerError
    /\ UNCHANGED <<now, request, start_time, topic, variant_dirs, html_files, svg_files,
                   gen, html_results, ex_i, svg_results, proc, ex_log,
                   worker_said, cli_vars, norm_vars, batch_vars, fence_vars>>

(***************************************************************************)
(* Stage 1: the three generation tasks, run by the pool's threads          *)
(***************************************************************************)
\* lines 331-335: executor.submit for i in range(3); max_workers = 3
Submit ==
    /\ pc = "submit"
    /\ gen' = [i \in Slots |-> [gen[i] EXCEPT !.pc = "mkdir"]]
    /\ pc' = "collect"
    /\ UNCHANGED <<now, request, start_time, topic, output_dir, variant_dirs, html_files,
                   svg_files, html_results, ex_i, svg_results, proc, ex_log,
                   worker_said, resp, cli_vars, norm_vars, batch_vars, fence_vars>>

\* generate_single_variant_api returns: its locals are gone
GenReturn(result) ==
    [pc |-> "done", elements |-> Null, d3_code |-> <<>>, result |-> result,
     collected |-> FALSE]

HtmlGenerated(i) ==
    [variant_id |-> i + 1, html |-> VariantName(i) \o <<"/infographic.html">>,
     directory |-> VariantName(i), status |-> "html_generated"]

GenUnchanged ==
    UNCHANGED <<now, pc, request, start_time, topic, output_dir, html_results, ex_i,
                svg_results, proc, ex_log, worker_said, resp, svg_files,
                cli_vars, norm_vars, batch_vars, fence_vars>>

\* lines 143-150: the imports and variant_dir.mkdir; an exception gives None
GenMkdir(i) ==
    /\ gen[i].pc = "mkdir"
    /\ \/ /\ variant_dirs' = variant_dirs \cup {i}
          /\ gen' = [gen EXCEPT ![i].pc = "elements"]
       \/ /\ variant_dirs' = variant_dirs
          /\ gen' = [gen EXCEPT ![i] = GenReturn(PyNone)]
    /\ UNCHANGED html_files
    /\ GenUnchanged

\* lines 152-163: an empty elements_response is replaced by "basic elements"
ElementsOrDefault(elements_response) ==
    IF elements_response = <<>> THEN "basic elements" ELSE "listed elements"

GenElements(i) ==
    /\ gen[i].pc = "elements"
    /\ \/ \E elements_response \in {<<>>, <<"[...]">>} :
            gen' = [gen EXCEPT ![i].pc = "code",
                               ![i].elements = ElementsOrDefault(elements_response)]
       \/ gen' = [gen EXCEPT ![i] = GenReturn(PyNone)]
    /\ UNCHANGED <<variant_dirs, html_files>>
    /\ GenUnchanged

\* lines 165-172 and 192-194: the code call returns d3_code, possibly empty,
\* or raises, which gives None
GenCode(i) ==
    /\ gen[i].pc = "code"
    /\ \/ \E d3_code \in {<<>>, <<"<html>">>} :
            gen' = [gen EXCEPT ![i].pc = "save", ![i].d3_code = d3_code]
       \/ gen' = [gen EXCEPT ![i] = GenReturn(PyNone)]
    /\ UNCHANGED <<variant_dirs, html_files>>
    /\ GenUnchanged

\* mutant: the test of line 174 is missing, an empty d3_code is written too
GenSave_NoEmptyCheck(i) ==
    /\ gen[i].pc = "save"
    /\ \/ /\ gen' = [gen EXCEPT ![i] = GenReturn(HtmlGenerated(i))]
          /\ html_files' = html_files \cup {i}
       \/ /\ gen' = [gen EXCEPT ![i] = GenReturn(PyNone)]
          /\ html_files' = html_files
    /\ UNCHANGED variant_dirs
    /\ GenUnchanged

\* lines 174-194: an empty d3_code gives None; otherwise infographic.html is
\* written and the result returned; an exception while writing gives None
GenSave(i) ==
    /\ gen[i].pc = "save"
    /\ \/ IF gen[i].d3_code = <<>>
          THEN /\ gen' = [gen EXCEPT ![i] = GenReturn(PyNone)]
               /\ html_files' = html_files
          ELSE /\ gen' = [gen EXCEPT ![i] = GenReturn(HtmlGenerated(i))]
               /\ html_files' = html_files \cup {i}
       \/ /\ gen[i].d3_code # <<>>
          /\ gen' = [gen EXCEPT ![i] = GenReturn(PyNone)]
          /\ html_files' = html_files
    /\ UNCHANGED variant_dirs
    /\ GenUnchanged

\* genai's generate_content is called without a timeout
\* (gemini_api_d3_single_frame.py): a call that never returns leaves the pool
\* thread blocked for good
GenHang(i) ==
    /\ gen[i].pc \in {"elements", "code"}
    /\ gen' = [gen EXCEPT ![i].pc = "hung"]
    /\ UNCHANGED <<variant_dirs, html_files>>
    /\ GenUnchanged

\* time passes while generation tasks run
GenTick ==
    /\ pc = "collect"
    /\ \E i \in Slots : gen[i].pc # "done"
    /\ now < start_time + MaxGenTime
    /\ now' = now + 1
    /\ UNCHANGED <<api_vars, cli_vars, norm_vars, batch_vars, fence_vars>>

\* mutant: the failure of a task is raised out of the collection loop
Collect_RaisesFailure(i) ==
    /\ pc = "collect"
    /\ gen[i].pc = "done"
    /\ ~gen[i].collected
    /\ gen' = [gen EXCEPT ![i].collected = TRUE]
    /\ IF gen[i].result.status # "None"
       THEN /\ html_results' = Append(html_results, gen[i].result)
            /\ UNCHANGED <<pc, resp>>
       ELSE /\ html_results' = html_results
            /\ resp' = InternalServerError
            /\ pc' = "done"
    /\ UNCHANGED <<now, request, start_time, topic, output_dir, variant_dirs,
                   html_files, svg_files, ex_i, svg_results, proc, ex_log,
                   worker_said, cli_vars, norm_vars, batch_vars, fence_vars>>

\* lines 339-349: as_completed yields a finished future; a truthy result is kept
Collect(i) ==
    /\ pc = "collect"
    /\ gen[i].pc = "done"
    /\ ~gen[i].collected
    /\ gen' = [gen EXCEPT ![i].collected = TRUE]
    /\ html_results' = IF gen[i].result.status # "None"
                       THEN Append(html_results, gen[i].result)
                       ELSE html_results
    /\ UNCHANGED <<now, pc, request, start_time, topic, output_dir, variant_dirs,
                   html_files, svg_files, ex_i, svg_results, proc, ex_log,
                   worker_said, resp, cli_vars, norm_vars, batch_vars, fence_vars>>

\* mutant: the pool is left at the first collected future
AllCollected_First == \E i \in Slots : gen[i].pc = "done" /\ gen[i].collected

\* the as_completed loop has ended and the with block has joined the threads
AllCollected == \A i \in Slots : gen[i].pc = "done" /\ gen[i].collected

\* mutant: the empty result set is not checked
AfterGeneration_NoCheck ==
    /\ pc = "collect"
    /\ AllCollected
    /\ pc' = "ex_loop"
    /\ UNCHANGED <<now, request, start_time, topic, output_dir, variant_dirs,
                   html_files, svg_files, gen, html_results, ex_i, svg_results,
                   proc, ex_log, worker_said, resp, cli_vars, norm_vars, batch_vars, fence_vars>>

\* mutant: the generic handler rewrites the HTTPException
AfterGeneration_Rewritten ==
    /\ pc = "collect"
    /\ AllCollected
    /\ IF html_results = <<>>
       THEN /\ resp' = InternalServerError
            /\ pc' = "done"
       ELSE /\ resp' = resp
            /\ pc' = "ex_loop"
    /\ UNCHANGED <<now, request, start_time, topic, output_dir, variant_dirs,
                   html_files, svg_files, gen, html_results, ex_i, svg_results,
                   proc, ex_log, worker_said, cli_vars, norm_vars, batch_vars, fence_vars>>

\* lines 351-354: the pool is left once every future has been collected
AfterGeneration ==
    /\ pc = "collect"
    /\ AllCollected
    /\ IF html_results = <<>>
       THEN /\ resp' = HTTPException(500, "Failed to generate any HTML variants")
            /\ pc' = "done"
       ELSE /\ resp' = resp
            /\ pc' = "ex_loop"
    /\ UNCHANGED <<now, request, start_time, topic, output_dir, variant_dirs, html_files,
                   svg_files, gen, html_results, ex_i, svg_results, proc,
                   ex_log, worker_said, cli_vars, norm_vars, batch_vars, fence_vars>>

(***************************************************************************)
(* Stage 2: extract_svgs_sequential and extract_svg_subprocess             *)
(***************************************************************************)
Running(p) == p.pc \notin {"off", "exit", "killed"}

ExUnchanged ==
    UNCHANGED <<request, start_time, topic, output_dir, variant_dirs, html_files, gen,
                html_results, resp, cli_vars, norm_vars, batch_vars, fence_vars>>

SvgFailure(variant_id, message) ==
    [variant_id |-> variant_id, success |-> FALSE,
     svg_file |-> <<"variant_", ToString(variant_id), "/infographic.svg">>,
     svg_content_base64 |-> NoFile, file_size |-> 0, message |-> message]

SvgSuccess(variant_id, svg_content, message) ==
    [variant_id |-> variant_id, success |-> TRUE,
     svg_file |-> <<"variant_", ToString(variant_id), "/infographic.svg">>,
     svg_content_base64 |-> Base64(svg_content),
     file_size |-> Len(svg_content), message |-> message]

\* line 248: svg_file = Path(result['directory']) / "infographic.svg"
SvgFile(directory) == directory \o <<"/infographic.svg">>

\* mutant: no stagger delay
DelaySeconds_None(i) == 0

\* mutant: the same delay before every attempt but the first
DelaySeconds_Flat(i) == IF i > 0 THEN StaggerAPI ELSE 0

\* line 251: delay_seconds = i * 3
DelaySeconds(i) == i * StaggerAPI

Started(slot, t) ==
    [ProcOff EXCEPT !.pc = "launch", !.start = t]

\* subprocess.run has started the child and waits for it
Launch(slot, t) == [proc EXCEPT ![slot] = Started(slot, t)]

\* mutant: extract_svg_subprocess without its generic handler: a child that
\* cannot be started raises into generate_infographics
ExStart_SpawnRaises ==
    /\ pc = "ex_loop"
    /\ ex_i < Len(html_results)
    /\ LET result == html_results[ex_i + 1]
           slot == result.variant_id - 1
           t == now + DelaySeconds(ex_i)
       IN /\ now' = t
          /\ \/ /\ proc' = [Launch(slot, t) EXCEPT ![slot].output_svg = SvgFile(result.directory)]
                /\ ex_log' = Append(ex_log, [pos |-> ex_i, slot |-> slot, start |-> t, end |-> t,
                                             ended |-> FALSE, gate |-> "none"])
                /\ pc' = "ex_wait"
                /\ UNCHANGED <<ex_i, svg_results, resp>>
             \/ /\ resp' = InternalServerError
                /\ pc' = "done"
                /\ UNCHANGED <<proc, ex_log, ex_i, svg_results>>
    /\ UNCHANGED <<svg_files, worker_said, request, start_time, topic, output_dir,
                   variant_dirs, html_files, gen, html_results, cli_vars, norm_vars, batch_vars, fence_vars>>

\* lines 242-263 and 210-213: the stagger sleep, then the child is started and
\* subprocess.run blocks; a child that cannot be started gives
\* "Subprocess error" (lines 232-235) and the loop goes on
ExStart ==
    /\ pc = "ex_loop"
    /\ ex_i < Len(html_results)
    /\ LET result == html_results[ex_i + 1]
           slot == result.variant_id - 1
           t == now + DelaySeconds(ex_i)
       IN /\ now' = t
          /\ \/ /\ proc' = [Launch(slot, t) EXCEPT ![slot].output_svg = SvgFile(result.directory)]
                /\ ex_log' = Append(ex_log, [pos |-> ex_i, slot |-> slot, start |-> t, end |-> t,
                                             ended |-> FALSE, gate |-> "none"])
                /\ pc' = "ex_wait"
                /\ UNCHANGED <<ex_i, svg_results>>
             \/ /\ svg_results' = Append(svg_results,
                       SvgFailure(result.variant_id, <<"Subprocess error: ", "OSError">>))
                /\ ex_i' = ex_i + 1
                /\ UNCHANGED <<proc, ex_log, pc>>
    /\ UNCHANGED <<svg_files, worker_said>>
    /\ ExUnchanged

CurSlot == html_results[ex_i + 1].variant_id - 1

\* lines 215-226: the message extract_svg_subprocess returns for a finished child
RECURSIVE SuccessLine(_)
SuccessLine(output_lines) ==
    IF output_lines = <<>> THEN <<"Success">>
    ELSE IF Contains(Head(output_lines), "SUCCESS: ")
            /\ Contains(Head(output_lines), " bytes")
         THEN SplitSecond(Head(output_lines), "SUCCESS: ")
         ELSE SuccessLine(Tail(output_lines))

SubprocessMessage(p) ==
    IF p.returncode = 0 THEN SuccessLine(p.stdout)
    ELSE <<"Subprocess failed: ">> \o p.stderr

Closed(log, t) == [log EXCEPT ![Len(log)].end = t, ![Len(log)].ended = TRUE]

\* the readiness test on which the worker gave up, "none" when no test failed
FailedGate(p) ==
    IF p.trail # <<>> /\ ~p.trail[Len(p.trail)].ok
    THEN p.trail[Len(p.trail)].gate
    ELSE "none"

\* subprocess.run returns; lines 265-289 append the slot's entry.  Reading a
\* missing infographic.svg raises, which the generic handler turns into 500.
ExReturn ==
    /\ pc = "ex_wait"
    /\ proc[CurSlot].pc = "exit"
    /\ LET p == proc[CurSlot]
           variant_id == CurSlot + 1
           message == SubprocessMessage(p)
       IN IF p.returncode = 0
          THEN IF svg_files[CurSlot] = NoFile
               THEN /\ resp' = InternalServerError
                    /\ pc' = "done"
                    /\ UNCHANGED <<svg_results, ex_i>>
               ELSE /\ svg_results' = Append(svg_results,
                           SvgSuccess(variant_id, svg_files[CurSlot], message))
                    /\ ex_i' = ex_i + 1
                    /\ pc' = "ex_loop"
                    /\ resp' = resp
          ELSE /\ svg_results' = Append(svg_results, SvgFailure(variant_id, message))
               /\ ex_i' = ex_i + 1
               /\ pc' = "ex_loop"
               /\ resp' = resp
    /\ proc' = [proc EXCEPT ![CurSlot] = ProcOff]
    /\ ex_log' = [Closed(ex_log, now) EXCEPT ![Len(ex_log)].gate = FailedGate(proc[CurSlot])]
    /\ UNCHANGED <<now, request, start_time, topic, output_dir, variant_dirs, html_files,
                   gen, html_results, svg_files, worker_said, cli_vars, norm_vars, batch_vars, fence_vars>>

\* mutant: the timed-out child is left running
Killed_NotKilled(p) == p

\* TimeoutExpired: subprocess.run kills the child and waits for it
Killed(p) == [ProcOff EXCEPT !.pc = "killed"]

\* mutant: TimeoutExpired falls into the generic handler of lines 232-235
TimeoutMessage_Generic == <<"Subprocess error: ", "TimeoutExpired">>

\* line 231
TimeoutMessage == <<"Extraction timeout (120s)">>

\* mutant: a timeout ends the loop of extract_svgs_sequential
ExTimeout_Break ==
    /\ pc = "ex_wait"
    /\ Running(proc[CurSlot])
    /\ now' = proc[CurSlot].start + SubprocessTimeout
    /\ proc' = [proc EXCEPT ![CurSlot] = Killed(proc[CurSlot])]
    /\ svg_results' = Append(svg_results, SvgFailure(CurSlot + 1, TimeoutMessage))
    /\ ex_log' = Closed(ex_log, proc[CurSlot].start + SubprocessTimeout)
    /\ ex_i' = Len(html_results)
    /\ pc' = "ex_loop"
    /\ UNCHANGED <<svg_files, worker_said>>
    /\ ExUnchanged

\* mutant: a slot that timed out is given a second attempt
ExTimeout_Retry ==
    /\ pc = "ex_wait"
    /\ Running(proc[CurSlot])
    /\ now' = proc[CurSlot].start + SubprocessTimeout
    /\ proc' = [proc EXCEPT ![CurSlot] = Killed(proc[CurSlot])]
    /\ ex_log' = Closed(ex_log, proc[CurSlot].start + SubprocessTimeout)
    /\ IF Cardinality({k \in 1 .. Len(ex_log) : ex_log[k].slot = CurSlot}) < 2
       THEN UNCHANGED <<svg_results, ex_i>>
       ELSE /\ svg_results' = Append(svg_results, SvgFailure(CurSlot + 1, TimeoutMessage))
            /\ ex_i' = ex_i + 1
    /\ pc' = "ex_loop"
    /\ UNCHANGED <<svg_files, worker_said>>
    /\ ExUnchanged

\* lines 213 and 228-231: the child has not finished after 120 s
ExTimeout ==
    /\ pc = "ex_wait"
    /\ Running(proc[CurSlot])
    /\ now' = proc[CurSlot].start + SubprocessTimeout
    /\ proc' = [proc EXCEPT ![CurSlot] = Killed(proc[CurSlot])]
    /\ svg_results' = Append(svg_results, SvgFailure(CurSlot + 1, TimeoutMessage))
    /\ ex_log' = Closed(ex_log, proc[CurSlot].start + SubprocessTimeout)
    /\ ex_i' = ex_i + 1
    /\ pc' = "ex_loop"
    /\ UNCHANGED <<svg_files, worker_said>>
    /\ ExUnchanged

(***************************************************************************)
(* The extractor subprocess: svg_extractor.py, extract_svg and main        *)
(***************************************************************************)
WorkerUnchanged ==
    UNCHANGED <<pc, request, start_time, topic, output_dir, variant_dirs, html_files,
                gen, html_results, ex_i, svg_results, ex_log, resp, cli_vars, norm_vars, batch_vars, fence_vars>>

\* mutant: the handler drops the text of the exception
ExtractionFailed_NoText(slot, error) ==
    <<"Extraction failed for ">> \o VariantName(slot) \o <<": ">>

\* lines 105-108
ExtractionFailed(slot, error) ==
    <<"Extraction failed for ">> \o VariantName(slot) \o <<": ", error>>

BrowserLaunchFailed(slot, error) ==
    <<"Browser launch failed for ">> \o VariantName(slot) \o <<": ", error>>

\* lines 128-136: main prints the verdict on stdout and exits 0 or 1
MainExit(p, result) ==
    [p EXCEPT !.pc = "exit",
              !.result = result,
              !.returncode = IF result.success THEN 0 ELSE 1,
              !.stdout = Append(p.stdout,
                  IF result.success
                  THEN <<"[EXTRACTOR] ", "SUCCESS: ">> \o result.message
                  ELSE <<"[EXTRACTOR] ", "FAILED: ">> \o result.message)]

\* mutant: a return inside the inner try leaves extract_svg at once
ToClose_NoFinally(p, result) == [p EXCEPT !.pc = "exit", !.result = result]

\* a return inside the inner try: the finally clause is still to run
ToClose(p, result) == [p EXCEPT !.pc = "close", !.result = result]

\* the verdict of one readiness test of extract_svg
Verdict(p, gate, ok) == [p EXCEPT !.trail = Append(@, [gate |-> gate, ok |-> ok])]

\* one evaluation of typeof d3 !== 'undefined' (lines 36 and 39)
D3Checked(p, t, d3_available) ==
    [p EXCEPT !.d3_checks = @ + 1,
              !.d3_log = Append(@, [at |-> t, available |-> d3_available])]

\* lines 20-21: async_playwright and chromium.launch; a failure is caught by
\* the outer handler (lines 113-116)
ProcLaunch(slot) ==
    /\ proc[slot].pc = "launch"
    /\ \/ /\ proc' = [proc EXCEPT ![slot].pc = "goto", ![slot].browser = "open"]
          /\ UNCHANGED worker_said
       \/ LET result == Outcome(FALSE, BrowserLaunchFailed(slot, "Error"))
          IN /\ proc' = [proc EXCEPT ![slot] = MainExit(proc[slot], result)]
             /\ worker_said' = [worker_said EXCEPT ![slot] = <<result>>]
    /\ UNCHANGED <<now, svg_files>>
    /\ WorkerUnchanged

\* lines 24-33: new_page, goto (30 s timeout), then the 3 s settle delay
ProcGoto(slot) ==
    /\ proc[slot].pc = "goto"
    /\ \/ /\ now' = now + SettleDelay
          /\ proc' = [proc EXCEPT ![slot] = [Verdict(@, "Loaded", TRUE) EXCEPT !.pc = "d3_1"]]
       \/ /\ now' = now + GotoTimeout
          /\ proc' = [proc EXCEPT ![slot] =
                 ToClose(Verdict(@, "Loaded", FALSE),
                         Outcome(FALSE, ExtractionFailed(slot, "Timeout 30000ms exceeded")))]
    /\ UNCHANGED <<svg_files, worker_said>>
    /\ WorkerUnchanged

\* lines 36-38: the first check; when negative, wait 5 s
ProcD3First(slot) ==
    /\ proc[slot].pc = "d3_1"
    /\ \E d3_available \in BOOLEAN :
         IF d3_available
         THEN /\ proc' = [proc EXCEPT ![slot] =
                     [Verdict(D3Checked(@, now, TRUE), "RuntimeReady", TRUE)
                          EXCEPT !.pc = "selector"]]
              /\ now' = now
         ELSE /\ proc' = [proc EXCEPT ![slot] =
                     [D3Checked(@, now, FALSE) EXCEPT !.pc = "d3_2"]]
              /\ now' = now + RetryDelay
    /\ UNCHANGED <<svg_files, worker_said>>
    /\ WorkerUnchanged

\* mutant: the return of line 43 is missing, a negative second check falls
\* through to the wait for the svg element
ProcD3Second_FallsThrough(slot) ==
    /\ proc[slot].pc = "d3_2"
    /\ \E d3_available \in BOOLEAN :
         proc' = [proc EXCEPT ![slot] =
             [Verdict(D3Checked(@, now, d3_available), "RuntimeReady", d3_available)
                  EXCEPT !.pc = "selector"]]
    /\ UNCHANGED <<now, svg_files, worker_said>>
    /\ WorkerUnchanged

\* mutant: a negative second check waits and polls once more
ProcD3Second_PollsAgain(slot) ==
    /\ proc[slot].pc = "d3_2"
    /\ \E d3_available \in BOOLEAN :
         IF d3_available
         THEN /\ proc' = [proc EXCEPT ![slot] =
                     [Verdict(D3Checked(@, now, TRUE), "RuntimeReady", TRUE)
                          EXCEPT !.pc = "selector"]]
              /\ now' = now
         ELSE IF proc[slot].d3_checks < 2
         THEN /\ proc' = [proc EXCEPT ![slot] = D3Checked(@, now, FALSE)]
              /\ now' = now + RetryDelay
         ELSE /\ proc' = [proc EXCEPT ![slot] =
                     ToClose(Verdict(D3Checked(@, now, FALSE), "RuntimeReady", FALSE),
                             Outcome(FALSE, <<"D3.js failed to load">>))]
              /\ now' = now
    /\ UNCHANGED <<svg_files, worker_said>>
    /\ WorkerUnchanged

\* lines 39-43: the second check
ProcD3Second(slot) ==
    /\ proc[slot].pc = "d3_2"
    /\ \E d3_available \in BOOLEAN :
         IF d3_available
         THEN proc' = [proc EXCEPT ![slot] =
                  [Verdict(D3Checked(@, now, TRUE), "RuntimeReady", TRUE)
                       EXCEPT !.pc = "selector"]]
         ELSE proc' = [proc EXCEPT ![slot] =
                  ToClose(Verdict(D3Checked(@, now, FALSE), "RuntimeReady", FALSE),
                          Outcome(FALSE, <<"D3.js failed to load">>))]
    /\ UNCHANGED <<now, svg_files, worker_said>>
    /\ WorkerUnchanged

\* lines 48-49: wait_for_selector (15 s timeout), then the 2 s settle delay
ProcSelector(slot) ==
    /\ proc[slot].pc = "selector"
    /\ \/ /\ now' = now + SvgSettleDelay
          /\ proc' = [proc EXCEPT ![slot] =
                 [Verdict(@, "OutputPresent", TRUE) EXCEPT !.pc = "validate"]]
       \/ /\ now' = now + SelectorTimeout
          /\ proc' = [proc EXCEPT ![slot] =
                 ToClose(Verdict(@, "OutputPresent", FALSE),
                         Outcome(FALSE, ExtractionFailed(slot, "Timeout 15000ms exceeded")))]
    /\ UNCHANGED <<svg_files, worker_said>>
    /\ WorkerUnchanged

\* mutant: the threshold is off by one, four children pass
InvalidSvg_OffByOne(svg_info) == ~svg_info.present \/ svg_info.children < MinChildren - 1

\* line 65: not svg_info or svg_info['children'] < 5
InvalidSvg(svg_info) == ~svg_info.present \/ svg_info.children < MinChildren

\* lines 52-67: svg_info is null or holds the number of direct children; a
\* page.evaluate that raises is caught by the inner handler (lines 105-108)
ProcValidate(slot) ==
    /\ proc[slot].pc = "validate"
    /\ \/ \E svg_info \in SvgInfos :
            IF InvalidSvg(svg_info)
            THEN proc' = [proc EXCEPT ![slot] =
                     ToClose([Verdict(@, "StructurallyValid", FALSE)
                                  EXCEPT !.svg_info = svg_info],
                             Outcome(FALSE, <<"Invalid SVG content">>))]
            ELSE proc' = [proc EXCEPT ![slot] =
                     [Verdict(@, "StructurallyValid", TRUE)
                          EXCEPT !.pc = "serialize", !.svg_info = svg_info]]
       \/ proc' = [proc EXCEPT ![slot] =
              ToClose(@, Outcome(FALSE, ExtractionFailed(slot, "Error")))]
    /\ UNCHANGED <<now, svg_files, worker_said>>
    /\ WorkerUnchanged

\* lines 72-93: the clone's outerHTML; null or empty fails
ProcSerialize(slot) ==
    /\ proc[slot].pc = "serialize"
    /\ \E svg_content \in Markups :
         IF svg_content = <<>>
         THEN proc' = [proc EXCEPT ![slot] =
                  ToClose(Verdict(@, "Extracted", FALSE),
                          Outcome(FALSE, <<"Failed to extract SVG">>))]
         ELSE proc' = [proc EXCEPT ![slot] =
                  [Verdict(@, "Extracted", TRUE)
                       EXCEPT !.pc = "write", !.content = svg_content]]
    /\ UNCHANGED <<now, svg_files, worker_said>>
    /\ WorkerUnchanged

\* line 100: the size reported is that of svg_content alone
ReportedSize(svg_content) == Len(svg_content)

\* lines 96-103: the file is the declaration followed by the markup
ProcWrite(slot) ==
    /\ proc[slot].pc = "write"
    /\ LET p == proc[slot]
       IN \/ /\ svg_files' = [svg_files EXCEPT ![slot] = XmlDeclaration \o p.content]
             /\ proc' = [proc EXCEPT ![slot] =
                    ToClose([@ EXCEPT !.stdout = Append(@,
                                 <<"[EXTRACTOR] ", "SVG extracted successfully for ">>
                                 \o VariantName(slot)
                                 \o <<": ", ToString(ReportedSize(p.content)), " bytes">>)],
                            Outcome(TRUE, <<"Success: ", ToString(ReportedSize(p.content)), " bytes">>))]
          \/ /\ svg_files' = svg_files
             /\ proc' = [proc EXCEPT ![slot] =
                    ToClose(@, Outcome(FALSE, ExtractionFailed(slot, "OSError")))]
    /\ UNCHANGED <<now, worker_said>>
    /\ WorkerUnchanged

\* lines 110-111 and 129-136: browser.close in the finally clause, then
\* extract_svg returns and main exits
ProcClose(slot) ==
    /\ proc[slot].pc = "close"
    /\ proc' = [proc EXCEPT ![slot] =
           MainExit([@ EXCEPT !.browser = "closed", !.closes = @ + 1],
                    proc[slot].result)]
    /\ worker_said' = [worker_said EXCEPT ![slot] = <<proc[slot].result>>]
    /\ UNCHANGED <<now, svg_files>>
    /\ WorkerUnchanged

(***************************************************************************)
(* generate_infographics: the response                                     *)
(***************************************************************************)
\* line 361
SuccessfulSvgs(results) == SelectSeq(results, LAMBDA r : r.success)

\* lines 369-378
ResponseVariant(svg_result) ==
    [variant_id |-> svg_result.variant_id,
     success |-> svg_result.success,
     svg_content_base64 |-> svg_result.svg_content_base64,
     file_size |-> svg_result.file_size,
     message |-> svg_result.message,
     svg_file_path |-> svg_result.svg_file]

\* mutant: failed entries are left out of the response
ResponseVariants_OnlySuccessful(results) ==
    [j \in 1 .. Len(SuccessfulSvgs(results)) |->
        ResponseVariant(SuccessfulSvgs(results)[j])]

\* mutant: the entries are listed by ascending variant_id
ResponseVariants_Sorted(results) ==
    LET of(v) == SelectSeq(results, LAMBDA r : r.variant_id = v)
        sorted == of(1) \o of(2) \o of(3)
    IN [j \in 1 .. Len(sorted) |-> ResponseVariant(sorted[j])]

\* lines 366-378: one entry for each entry of svg_results, in its order
ResponseVariants(results) == [j \in 1 .. Len(results) |-> ResponseVariant(results[j])]

\* mutant: every extraction must succeed
Outcome500OrResponse_AllRequired(results, generation_time, dir) ==
    IF Len(SuccessfulSvgs(results)) < Len(results)
    THEN HTTPException(500, "Failed to extract any SVGs")
    ELSE InfographicResponse(
             TRUE,
             <<"Successfully generated ", ToString(Len(SuccessfulSvgs(results))),
               "/3 infographic variants">>,
             ResponseVariants(results), generation_time, dir)

\* mutant: total failure is reported in a response with success = FALSE
Outcome500OrResponse_AlwaysResponse(results, generation_time, dir) ==
    InfographicResponse(
        SuccessfulSvgs(results) # <<>>,
        <<"Successfully generated ", ToString(Len(SuccessfulSvgs(results))),
          "/3 infographic variants">>,
        ResponseVariants(results), generation_time, dir)

\* mutant: the test of lines 363-364 is missing
Outcome500OrResponse_Unchecked(results, generation_time, dir) ==
    InfographicResponse(
        TRUE,
        <<"Successfully generated ", ToString(Len(SuccessfulSvgs(results))),
          "/3 infographic variants">>,
        ResponseVariants(results), generation_time, dir)

\* lines 361-389: what the handler delivers once extract_svgs_sequential is back
Outcome500OrResponse(results, generation_time, dir) ==
    IF SuccessfulSvgs(results) = <<>>
    THEN HTTPException(500, "Failed to extract any SVGs")
    ELSE InfographicResponse(
             TRUE,
             <<"Successfully generated ", ToString(Len(SuccessfulSvgs(results))),
               "/3 infographic variants">>,
             ResponseVariants(results), generation_time, dir)

Respond ==
    /\ pc = "ex_loop"
    /\ ex_i = Len(html_results)
    /\ resp' = Outcome500OrResponse(svg_results, now - start_time, output_dir)
    /\ pc' = "done"
    /\ UNCHANGED <<now, request, start_time, topic, output_dir, variant_dirs, html_files,
                   svg_files, gen, html_results, ex_i, svg_results, proc,
                   ex_log, worker_said, cli_vars, norm_vars, batch_vars, fence_vars>>

(***************************************************************************)
(* The API pipeline                                                        *)
(***************************************************************************)
Next ==
    \/ \E prompt \in Prompts : Request(prompt)
    \/ RejectEmpty
    \/ CreateOutputDir
    \/ Submit
    \/ \E i \in Slots : GenMkdir(i)
    \/ \E i \in Slots : GenElements(i)
    \/ \E i \in Slots : GenCode(i)
    \/ \E i \in Slots : GenSave(i)
    \/ \E i \in Slots : GenHang(i)
    \/ GenTick
    \/ \E i \in Slots : Collect(i)
    \/ AfterGeneration
    \/ ExStart
    \/ ExReturn
    \/ ExTimeout
    \/ \E i \in Slots : ProcLaunch(i)
    \/ \E i \in Slots : ProcGoto(i)
    \/ \E i \in Slots : ProcD3First(i)
    \/ \E i \in Slots : ProcD3Second(i)
    \/ \E i \in Slots : ProcSelector(i)
    \/ \E i \in Slots : ProcValidate(i)
    \/ \E i \in Slots : ProcSerialize(i)
    \/ \E i \in Slots : ProcWrite(i)
    \/ \E i \in Slots : ProcClose(i)
    \/ Respond

Spec == Init /\ [][Next]_vars

(***************************************************************************)
(* Properties of the API pipeline                                          *)
(***************************************************************************)
IsResponse == resp.kind = "InfographicResponse"

IsError(status_code, detail) == resp = HTTPException(status_code, detail)

Successes(variants) == {j \in 1 .. Len(variants) : variants[j].success}

ExtractionStageOver == pc = "done" /\ html_results # <<>> /\ ex_i = Len(html_results)

GenerationAllFailed == AllCollected /\ html_results = <<>>

\* C1 as stated: a batch result's variants list has exactly V entries, one
\* per slot, whether the slot succeeded or failed.
C1_Original == IsResponse => Len(resp.variants) = NumVariants

\* C1 amended: a batch result's variants list has exactly one entry for each
\* slot whose generation produced a document, in the order of html_results,
\* whether that slot's extraction succeeded or failed; a slot whose
\* generation failed has no entry, so the list has between 1 and V entries.
C1_Amended ==
    IsResponse =>
        /\ Len(resp.variants) = Len(html_results)
        /\ Len(resp.variants) \in 1 .. NumVariants
        /\ \A j \in 1 .. Len(resp.variants) :
               resp.variants[j].variant_id = html_results[j].variant_id
        /\ {resp.variants[j].variant_id : j \in 1 .. Len(resp.variants)}
               = {i + 1 : i \in html_files}

C1_Witness ==
    /\ IsResponse
    /\ Len(resp.variants) = 2
    /\ Cardinality(Successes(resp.variants)) = 1

\* C2 as stated: when every extraction worker fails the batch result's
\* success flag is false, and when at least one succeeds it is true.
C2_Original ==
    ExtractionStageOver =>
        /\ IsResponse
        /\ resp.success = (SuccessfulSvgs(svg_results) # <<>>)

\* C2 amended: when every extraction worker fails no batch result is
\* returned, the invocation ends with the HTTP error 500 "Failed to extract
\* any SVGs"; when at least one succeeds the batch result's success flag is
\* true.
C2_Amended ==
    ExtractionStageOver =>
        IF SuccessfulSvgs(svg_results) = <<>>
        THEN IsError(500, "Failed to extract any SVGs")
        ELSE IsResponse /\ resp.success = TRUE

C2_Witness ==
    /\ ExtractionStageOver
    /\ Len(svg_results) = NumVariants
    /\ SuccessfulSvgs(svg_results) = <<>>
    /\ IsError(500, "Failed to extract any SVGs")

\* C3 as stated: once validation has passed, the invocation always ends by
\* returning a structured batch result and never by raising an exception.
C3_Original == (pc = "done" /\ topic # <<>> /\ output_dir # NoFile) => IsResponse

\* C3 amended: once validation has passed, the invocation ends either by
\* returning a structured batch result (success flag, message, variants,
\* elapsed time, output location), which happens only when at least one
\* extraction succeeded, or by raising an HTTPException with status 500; it
\* never ends in any other way.
C3_Amended ==
    (pc = "done" /\ topic # <<>>) =>
        \/ /\ IsResponse
           /\ DOMAIN resp = {"kind", "success", "message", "variants",
                             "generation_time", "output_directory"}
           /\ Successes(resp.variants) # {}
        \/ /\ resp.kind = "HTTPException"
           /\ resp.status_code = 500

C3_Witness ==
    /\ pc = "done"
    /\ topic # <<>>
    /\ IsError(500, "Failed to extract any SVGs")
    /\ \E j \in 1 .. Len(svg_results) :
           svg_results[j].message = <<"Extraction timeout (120s)">>

\* C4: when the generation stage yields no document, extract_svgs_sequential
\* is never entered: no subprocess is launched, no stagger delay is taken
\* and no outcome is recorded.
C4_NoExtractionWithoutDocuments ==
    html_results = <<>> =>
        /\ pc \notin {"ex_loop", "ex_wait"}
        /\ ex_log = <<>>
        /\ svg_results = <<>>
        /\ \A i \in Slots : proc[i].pc = "off"
        /\ now <= start_time + MaxGenTime

C4_Witness ==
    /\ pc = "done"
    /\ GenerationAllFailed
    /\ IsError(500, "Failed to generate any HTML variants")

\* C5 as stated: when generation fails for all three slots the outcome has
\* success = false, a message about the generation failure and the elapsed
\* time.
C5_Original ==
    (pc = "done" /\ GenerationAllFailed) =>
        /\ IsResponse
        /\ resp.success = FALSE
        /\ resp.generation_time = now - start_time

\* C5 amended: when generation fails for all three slots the caller receives
\* the HTTP error 500 whose detail "Failed to generate any HTML variants"
\* indicates the generation failure; the error carries neither a success
\* flag nor the elapsed time.
C5_Amended ==
    (pc = "done" /\ GenerationAllFailed) =>
        /\ IsError(500, "Failed to generate any HTML variants")
        /\ DOMAIN resp = {"kind", "status_code", "detail"}

C5_Witness ==
    /\ pc = "done"
    /\ \A i \in Slots : gen[i].pc = "done" /\ gen[i].result = PyNone
    /\ now > start_time
    /\ resp.kind = "HTTPException"

\* a prompt made of whitespace only
Blank(prompt) == \A j \in 1 .. Len(prompt) : prompt[j] = " "

\* C6: a prompt that is empty, or empty once stripped, is rejected with
\* status 400 before any generation task is scheduled and before any
\* directory or file is created.
C6_EmptyTopicRejected ==
    (pc # "idle" /\ Blank(request.prompt)) =>
        /\ output_dir = NoFile
        /\ variant_dirs = {}
        /\ html_files = {}
        /\ \A i \in Slots : svg_files[i] = NoFile /\ gen[i] = GenNew
        /\ pc \in {"validate", "done"}
        /\ pc = "done" => IsError(400, "Prompt cannot be empty")

C6_Witness ==
    /\ pc = "done"
    /\ request.prompt = <<" ">>
    /\ IsError(400, "Prompt cannot be empty")

\* what extract_svg returns when d3 is absent at both checks
RuntimeUnavailable == Outcome(FALSE, <<"D3.js failed to load">>)

\* all three generations succeeded, slots 0 and 2 were extracted and slot 1's
\* runtime was absent at both checks
C7_Scenario ==
    /\ pc = "done"
    /\ Len(html_results) = NumVariants
    /\ \A i \in {0, 2} : worker_said[i] # <<>> /\ worker_said[i][1].success
    /\ worker_said[1] = <<RuntimeUnavailable>>

\* C7: all three generations succeed, slots 0 and 2 are extracted, slot 1's
\* runtime is absent at both checks; the result has success = true, three
\* entries, two of them successful, and slot 1's entry is a failure whose
\* message carries the worker's reason "D3.js failed to load".
C7_Claim ==
    C7_Scenario =>
        /\ IsResponse
        /\ resp.success = TRUE
        /\ Len(resp.variants) = NumVariants
        /\ Cardinality(Successes(resp.variants)) = 2
        /\ \A j \in 1 .. Len(resp.variants) :
               resp.variants[j].variant_id = 2 =>
                   /\ ~resp.variants[j].success
                   /\ Contains(resp.variants[j].message, "D3.js failed to load")

\* C8 as stated: extractions start in slot order, consecutive slots at least
\* the stagger interval apart, whatever the order of completion of the
\* generation tasks.
C8_Original ==
    \A j, k \in 1 .. Len(ex_log) :
        ex_log[j].slot < ex_log[k].slot =>
            ex_log[j].start + StaggerAPI <= ex_log[k].start

\* C8 amended: extractions start in the order of the generated-documents
\* list, which is the order in which the generation tasks completed and not
\* the slot order; start times are non-decreasing in list position and
\* consecutive starts are at least the stagger interval (3 s) apart.
C8_Amended ==
    /\ \A k \in 1 .. Len(ex_log) :
           /\ ex_log[k].pos < Len(html_results)
           /\ ex_log[k].slot = html_results[ex_log[k].pos + 1].variant_id - 1
    /\ \A k \in 2 .. Len(ex_log) :
           /\ ex_log[k - 1].pos < ex_log[k].pos
           /\ ex_log[k - 1].start + StaggerAPI <= ex_log[k].start

C8_Witness ==
    /\ Len(ex_log) = NumVariants
    /\ ex_log[1].slot = 2
    /\ ex_log[2].slot = 0
    /\ ex_log[2].start = ex_log[1].start + StaggerAPI

\* C9: at every instant at most one extractor subprocess of the batch is
\* running, and a subprocess is started only after every earlier one has
\* returned or has been killed on timeout.
C9_OneExtractionAtATime ==
    /\ Cardinality({i \in Slots : Running(proc[i])}) <= 1
    /\ \A k \in 2 .. Len(ex_log) :
           /\ ex_log[k - 1].ended
           /\ ex_log[k - 1].end <= ex_log[k].start

C9_Witness ==
    /\ Len(ex_log) = 2
    /\ proc[ex_log[1].slot].pc = "killed"
    /\ Running(proc[ex_log[2].slot])

(***************************************************************************)
(* The CLI pipeline: main_d3_parallel_headless.py                          *)
(*                                                                         *)
(* Each of the three pool threads runs generate_single_variant_headless:   *)
(* generation, the stagger sleep, then the extraction in the same thread.  *)
(* cli[i].wake is the time before which thread i cannot take its next      *)
(* step.                                                                   *)
(***************************************************************************)
CliUnchanged ==
    UNCHANGED <<now, pc, request, start_time, topic, output_dir, html_results,
                ex_i, svg_results, proc, ex_log, worker_said, resp, gen,
                cli_results, cli_ret, norm_vars, batch_vars, fence_vars>>

\* lines 195-237: the topic is taken as given, the batch directory is made
\* and the three tasks are submitted
CliMain(t) ==
    /\ pc = "idle"
    /\ topic' = t
    /\ output_dir' = BatchName("batch", now, t)
    /\ cli' = [i \in Slots |-> [CliNew EXCEPT !.pc = "mkdir", !.wake = now]]
    /\ pc' = "collect"
    /\ UNCHANGED <<now, request, start_time, variant_dirs, html_files, svg_files,
                   gen, html_results, ex_i, svg_results, proc, ex_log,
                   worker_said, resp, cli_results, cli_ret, norm_vars, batch_vars, fence_vars>>

\* generate_single_variant_headless returns
CliDone(c, result) ==
    [CliNew EXCEPT !.pc = "done", !.result = result]

CliGenerated(i) ==
    [variant_id |-> i + 1, html |-> VariantName(i) \o <<"/infographic.html">>,
     svg |-> VariantName(i) \o <<"/infographic.svg">>,
     directory |-> VariantName(i), status |-> "extracted"]

CanStep(i) == pc = "collect" /\ now >= cli[i].wake

\* lines 119-137: the imports, variant_dir.mkdir, then the elements call
CliMkdir(i) ==
    /\ CanStep(i)
    /\ cli[i].pc = "mkdir"
    /\ \/ /\ variant_dirs' = variant_dirs \cup {i}
          /\ \E d \in 0 .. MaxGenTime :
               cli' = [cli EXCEPT ![i].pc = "elements", ![i].wake = now + d]
       \/ /\ variant_dirs' = variant_dirs
          /\ cli' = [cli EXCEPT ![i] = CliDone(@, PyNone)]
    /\ UNCHANGED <<html_files, svg_files>>
    /\ CliUnchanged

\* lines 137-150: an empty elements_response gives None; then the code call
CliElements(i) ==
    /\ CanStep(i)
    /\ cli[i].pc = "elements"
    /\ \/ \E elements_response \in {<<>>, <<"[...]">>}, d \in 0 .. MaxGenTime :
            IF elements_response = <<>>
            THEN cli' = [cli EXCEPT ![i] = CliDone(@, PyNone)]
            ELSE cli' = [cli EXCEPT ![i].pc = "code", ![i].wake = now + d]
       \/ cli' = [cli EXCEPT ![i] = CliDone(@, PyNone)]
    /\ UNCHANGED <<variant_dirs, html_files, svg_files>>
    /\ CliUnchanged

\* line 169: delay_seconds = variant_id * 5
CliDelaySeconds(variant_id) == variant_id * StaggerCLI

\* lines 150-172: an empty d3_code gives None; the document is written and
\* the thread sleeps
CliCode(i) ==
    /\ CanStep(i)
    /\ cli[i].pc = "code"
    /\ \/ \E d3_code \in {<<>>, <<"<html>">>} :
            IF d3_code = <<>>
            THEN /\ cli' = [cli EXCEPT ![i] = CliDone(@, PyNone)]
                 /\ html_files' = html_files
            ELSE /\ cli' = [cli EXCEPT ![i].pc = "sleep",
                                       ![i].wake = now + CliDelaySeconds(i)]
                 /\ html_files' = html_files \cup {i}
       \/ /\ cli' = [cli EXCEPT ![i] = CliDone(@, PyNone)]
          /\ html_files' = html_files
    /\ UNCHANGED <<variant_dirs, svg_files>>
    /\ CliUnchanged

\* line 174: the sleep is over, headless_svg_extract_sync is called
CliWake(i) ==
    /\ CanStep(i)
    /\ cli[i].pc = "sleep"
    /\ cli' = [cli EXCEPT ![i].pc = "launch"]
    /\ UNCHANGED <<variant_dirs, html_files, svg_files>>
    /\ CliUnchanged

\* the positions of a thread inside headless_svg_extract_async
CliExtractPcs ==
    {"launch", "goto", "d3_1", "d3_2", "selector", "validate", "serialize", "close"}

Extracting(i) == cli[i].pc \in CliExtractPcs

\* a return inside the try of headless_svg_extract_async
CliToClose(c, ok, wake) == [c EXCEPT !.pc = "close", !.ok = ok, !.wake = wake]

\* lines 24-25: a failed launch raises out of asyncio.run and is caught at
\* lines 190-192
CliLaunch(i) ==
    /\ CanStep(i)
    /\ cli[i].pc = "launch"
    /\ \/ cli' = [cli EXCEPT ![i].pc = "goto"]
       \/ cli' = [cli EXCEPT ![i] = CliDone(@, PyNone)]
    /\ UNCHANGED <<variant_dirs, html_files, svg_files>>
    /\ CliUnchanged

\* lines 28-36
CliGoto(i) ==
    /\ CanStep(i)
    /\ cli[i].pc = "goto"
    /\ \/ cli' = [cli EXCEPT ![i].pc = "d3_1", ![i].wake = now + SettleDelay]
       \/ cli' = [cli EXCEPT ![i] = CliToClose(@, FALSE, now + GotoTimeout)]
    /\ UNCHANGED <<variant_dirs, html_files, svg_files>>
    /\ CliUnchanged

\* lines 39-41
CliD3First(i) ==
    /\ CanStep(i)
    /\ cli[i].pc = "d3_1"
    /\ \E d3_available \in BOOLEAN :
         IF d3_available
         THEN cli' = [cli EXCEPT ![i].pc = "selector"]
         ELSE cli' = [cli EXCEPT ![i].pc = "d3_2", ![i].wake = now + RetryDelay]
    /\ UNCHANGED <<variant_dirs, html_files, svg_files>>
    /\ CliUnchanged

\* lines 42-46
CliD3Second(i) ==
    /\ CanStep(i)
    /\ cli[i].pc = "d3_2"
    /\ \E d3_available \in BOOLEAN :
         IF d3_available
         THEN cli' = [cli EXCEPT ![i].pc = "selector"]
         ELSE cli' = [cli EXCEPT ![i] = CliToClose(@, FALSE, now)]
    /\ UNCHANGED <<variant_dirs, html_files, svg_files>>
    /\ CliUnchanged

\* lines 49-50
CliSelector(i) ==
    /\ CanStep(i)
    /\ cli[i].pc = "selector"
    /\ \/ cli' = [cli EXCEPT ![i].pc = "validate", ![i].wake = now + SvgSettleDelay]
       \/ cli' = [cli EXCEPT ![i] = CliToClose(@, FALSE, now + SelectorTimeout)]
    /\ UNCHANGED <<variant_dirs, html_files, svg_files>>
    /\ CliUnchanged

\* lines 53-68
CliValidate(i) ==
    /\ CanStep(i)
    /\ cli[i].pc = "validate"
    /\ \E svg_info \in SvgInfos :
         IF InvalidSvg(svg_info)
         THEN cli' = [cli EXCEPT ![i] = CliToClose(@, FALSE, now)]
         ELSE cli' = [cli EXCEPT ![i].pc = "serialize"]
    /\ UNCHANGED <<variant_dirs, html_files, svg_files>>
    /\ CliUnchanged

\* svg_content.replace('<svg', '<svg xmlns="http://www.w3.org/2000/svg"')
RECURSIVE AddXmlns(_)
AddXmlns(text) ==
    IF text = <<>> THEN <<>>
    ELSE IF Head(text) = "<svg" THEN <<"<svg", XmlnsAttr>> \o AddXmlns(Tail(text))
    ELSE <<Head(text)>> \o AddXmlns(Tail(text))

\* mutant: the declaration is prepended without the test of line 85
NormalizeSvg_AlwaysDeclares(svg_content) ==
    LET declared == XmlDeclaration \o svg_content
    IN IF Contains(declared, XmlnsAttr) THEN declared ELSE AddXmlns(declared)

\* lines 85-90: the declaration and the namespace are added when absent
NormalizeSvg(svg_content) ==
    LET declared == IF svg_content # <<>> /\ Head(svg_content) = XmlDeclaration[1]
                    THEN svg_content
                    ELSE XmlDeclaration \o svg_content
    IN IF Contains(declared, XmlnsAttr) THEN declared ELSE AddXmlns(declared)

\* what svg.outerHTML can evaluate to in the CLI worker
CliMarkups == Markups \cup {<<"<svg", ">", "</svg>">>}

\* lines 73-99: serialization, normalization and the write
CliSerialize(i) ==
    /\ CanStep(i)
    /\ cli[i].pc = "serialize"
    /\ \/ \E svg_content \in CliMarkups :
            IF svg_content = <<>>
            THEN /\ cli' = [cli EXCEPT ![i] = CliToClose(@, FALSE, now)]
                 /\ svg_files' = svg_files
            ELSE /\ cli' = [cli EXCEPT ![i] = CliToClose(@, TRUE, now)]
                 /\ svg_files' = [svg_files EXCEPT ![i] = NormalizeSvg(svg_content)]
       \/ /\ cli' = [cli EXCEPT ![i] = CliToClose(@, FALSE, now)]
          /\ svg_files' = svg_files
    /\ UNCHANGED <<variant_dirs, html_files>>
    /\ CliUnchanged

\* lines 105-106 and 176-188: browser.close, then the thread's result
CliClose(i) ==
    /\ CanStep(i)
    /\ cli[i].pc = "close"
    /\ cli' = [cli EXCEPT ![i] =
           CliDone(@, IF cli[i].ok THEN CliGenerated(i) ELSE PyNone)]
    /\ UNCHANGED <<variant_dirs, html_files, svg_files>>
    /\ CliUnchanged

Waiting == {i \in Slots : cli[i].pc \notin {"new", "done"}}

Earliest(S) == CHOOSE t \in S : \A u \in S : t <= u

\* time passes when no thread can take a step
CliTick ==
    /\ pc = "collect"
    /\ Waiting # {}
    /\ \A i \in Waiting : cli[i].wake > now
    /\ now' = Earliest({cli[i].wake : i \in Waiting})
    /\ UNCHANGED <<api_vars, cli_vars, norm_vars, batch_vars, fence_vars>>

\* lines 242-252: as_completed yields a finished future
CliCollect(i) ==
    /\ pc = "collect"
    /\ cli[i].pc = "done"
    /\ ~cli[i].collected
    /\ cli' = [cli EXCEPT ![i].collected = TRUE]
    /\ cli_results' = IF cli[i].result.status # "None"
                      THEN Append(cli_results, cli[i].result)
                      ELSE cli_results
    /\ UNCHANGED <<now, api_vars, cli_ret, norm_vars, batch_vars, fence_vars>>

\* mutant: the summary reports success whatever was collected
CliReturn_AlwaysTrue ==
    /\ pc = "collect"
    /\ \A i \in Slots : cli[i].pc = "done" /\ cli[i].collected
    /\ cli_ret' = <<[success |-> TRUE, output_dir |-> output_dir,
                     results |-> cli_results]>>
    /\ pc' = "done"
    /\ UNCHANGED <<now, request, start_time, topic, output_dir, variant_dirs,
                   html_files, svg_files, gen, html_results, ex_i, svg_results,
                   proc, ex_log, worker_said, resp, cli, cli_results, norm_vars, batch_vars, fence_vars>>

\* lines 259-286
CliReturn ==
    /\ pc = "collect"
    /\ \A i \in Slots : cli[i].pc = "done" /\ cli[i].collected
    /\ cli_ret' = <<[success |-> cli_results # <<>>, output_dir |-> output_dir,
                     results |-> cli_results]>>
    /\ pc' = "done"
    /\ UNCHANGED <<now, request, start_time, topic, output_dir, variant_dirs,
                   html_files, svg_files, gen, html_results, ex_i, svg_results,
                   proc, ex_log, worker_said, resp, cli, cli_results, norm_vars, batch_vars, fence_vars>>

NextCLI ==
    \/ \E t \in Prompts : CliMain(t)
    \/ \E i \in Slots : CliMkdir(i)
    \/ \E i \in Slots : CliElements(i)
    \/ \E i \in Slots : CliCode(i)
    \/ \E i \in Slots : CliWake(i)
    \/ \E i \in Slots : CliLaunch(i)
    \/ \E i \in Slots : CliGoto(i)
    \/ \E i \in Slots : CliD3First(i)
    \/ \E i \in Slots : CliD3Second(i)
    \/ \E i \in Slots : CliSelector(i)
    \/ \E i \in Slots : CliValidate(i)
    \/ \E i \in Slots : CliSerialize(i)
    \/ \E i \in Slots : CliClose(i)
    \/ CliTick
    \/ \E i \in Slots : CliCollect(i)
    \/ CliReturn

SpecCLI == Init /\ [][NextCLI]_vars

\* C10: in the CLI pipeline no two slots' headless extractions are in
\* progress at the same instant.
C10_Claim == Cardinality({i \in Slots : Extracting(i)}) <= 1

\* all three extractions in progress at once
C10_AllAtOnce == \A i \in Slots : Extracting(i)

(***************************************************************************)
(* Claims about the extraction stage and the extraction worker             *)
(***************************************************************************)
TimedOut(e) == e.ended /\ e.end - e.start = 120

\* C11: every extraction attempt lasts at most 120 s; a subprocess that has
\* not finished by then is killed, its slot's entry is a failure whose
\* message names the timeout, and the scheduler has moved past that slot.
C11_TimeoutBoundsExtraction ==
    \A k \in 1 .. Len(ex_log) :
        LET e == ex_log[k]
            p == proc[e.slot]
        IN /\ IF e.ended THEN e.end - e.start <= 120 ELSE now - e.start <= 120
           /\ p.pc = "killed" <=> TimedOut(e)
           /\ TimedOut(e) =>
                 /\ ~Running(p)
                 /\ ex_i > e.pos
                 /\ Len(svg_results) > e.pos
                 /\ svg_results[e.pos + 1].variant_id = e.slot + 1
                 /\ ~svg_results[e.pos + 1].success
                 /\ svg_results[e.pos + 1].message = <<"Extraction timeout (120s)">>
                 /\ svg_results[e.pos + 1].svg_content_base64 = NoFile

C11_Witness ==
    /\ pc = "done"
    /\ IsResponse
    /\ Len(ex_log) = 3
    /\ TimedOut(ex_log[1])
    /\ ex_log[2].start = ex_log[1].start + 120 + 3
    /\ svg_results[3].success

Attempted(j) ==
    \/ \E k \in 1 .. Len(ex_log) : ex_log[k].pos = j - 1 /\ ex_log[k].ended
    \/ Head(svg_results[j].message) = "Subprocess error: "

\* C12: a failed extraction cancels nothing: the scheduler has one entry for
\* every generated document it has passed, in the order of html_results,
\* each the outcome of that slot's own attempt, and when the stage is over
\* every generated document has its entry, however the others ended.
C12_NoCrossSlotCancellation ==
    /\ pc \in {"ex_loop", "ex_wait"} => Len(svg_results) = ex_i
    /\ (pc = "done" /\ html_results # <<>>) => Len(svg_results) = Len(html_results)
    /\ Len(svg_results) <= Len(html_results)
    /\ \A j \in 1 .. Len(svg_results) :
           /\ svg_results[j].variant_id = html_results[j].variant_id
           /\ Attempted(j)

C12_Witness ==
    /\ pc = "done"
    /\ Len(html_results) = 3
    /\ Len(svg_results) = 3
    /\ Head(svg_results[1].message) = "Subprocess failed: "
    /\ svg_results[2].message = <<"Extraction timeout (120s)">>
    /\ svg_results[3].success

SlotAt(j) == html_results[j].variant_id - 1

\* C13: no failure inside one slot's extraction leaves the worker as an
\* uncaught error: the worker process always ends by reporting an outcome,
\* a child that could not be started, that failed or that was killed gives a
\* failure entry for its slot, and the generic handler of the endpoint is
\* never reached from the extraction stage.
C13_NoExceptionEscapesWorker ==
    /\ \A i \in Slots :
           proc[i].pc = "exit" =>
               /\ worker_said[i] = <<proc[i].result>>
               /\ proc[i].returncode = IF proc[i].result.success THEN 0 ELSE 1
    /\ \A k \in 1 .. Len(ex_log) :
           LET e == ex_log[k]
           IN e.ended =>
                 /\ Len(svg_results) > e.pos
                 /\ svg_results[e.pos + 1].variant_id = e.slot + 1
                 /\ svg_results[e.pos + 1].success <=>
                        (worker_said[e.slot] # <<>> /\ worker_said[e.slot][1].success)
    /\ html_results # <<>> => resp # InternalServerError

C13_Witness ==
    /\ pc = "done"
    /\ Len(svg_results) = 3
    /\ Head(svg_results[1].message) = "Subprocess error: "
    /\ worker_said[SlotAt(2)] = <<Outcome(FALSE, BrowserLaunchFailed(SlotAt(2), "Error"))>>
    /\ worker_said[SlotAt(3)] = <<Outcome(FALSE, ExtractionFailed(SlotAt(3), "OSError"))>>
    /\ ~svg_results[2].success
    /\ ~svg_results[3].success
    /\ IsError(500, "Failed to extract any SVGs")

(***************************************************************************)
(* The artifact: declaration and namespace                                 *)
(*                                                                         *)
(* SpecNormalize applies the two ways an extraction writes its artifact to *)
(* every outerHTML of a root svg element with up to MaxKids children, each *)
(* a g element or a nested svg element, with or without the xmlns          *)
(* attribute.                                                              *)
(***************************************************************************)
MaxKids == 2

Attrs == {<<>>, <<XmlnsAttr>>}

Leaf == <<"<g/>">>

SvgElement(attrs, kids) == <<"<svg">> \o attrs \o <<">">> \o kids \o <<"</svg>">>

InnerSvgs == {SvgElement(a, k) : a \in Attrs, k \in {<<>>, Leaf}}

RECURSIVE KidLists(_)
KidLists(n) ==
    IF n = 0 THEN {<<>>}
    ELSE {<<>>} \cup {k \o l : k \in InnerSvgs \cup {Leaf}, l \in KidLists(n - 1)}

OuterHTMLs == {SvgElement(a, l) : a \in Attrs, l \in KidLists(MaxKids)}

\* svg_extractor.py lines 79-82: svgClone.setAttribute('xmlns', ...) gives the
\* root element the attribute, or leaves it when the root already has it;
\* the descendants are serialized as they are
CloneOuterHTML(html) ==
    IF html[2] = XmlnsAttr THEN html
    ELSE <<"<svg", XmlnsAttr>> \o Tail(html)

\* svg_extractor.py lines 96-98: f.write(xml_declaration + svg_content)
ExtractorArtifact(html) == XmlDeclaration \o CloneOuterHTML(html)

InitNormalize ==
    /\ now = 0
    /\ ApiInit
    /\ CliIdle
    /\ outer_html \in OuterHTMLs
    /\ artifact = <<>>
    /\ writer = "none"
    /\ linesep = "\n"
    /\ entry = NoEntry
    /\ BatchesIdle
    /\ FenceIdle

\* main_d3_parallel_headless.py lines 72-94
CliWrites ==
    /\ writer = "none"
    /\ artifact' = NormalizeSvg(outer_html)
    /\ writer' = "cli"
    /\ UNCHANGED <<now, api_vars, cli_vars, outer_html, linesep, entry, batch_vars, fence_vars>>

\* svg_extractor.py lines 71-98
ExtractorWrites ==
    /\ writer = "none"
    /\ artifact' = ExtractorArtifact(outer_html)
    /\ writer' = "extractor"
    /\ UNCHANGED <<now, api_vars, cli_vars, outer_html, linesep, entry, batch_vars, fence_vars>>

NextNormalize ==
    \/ CliWrites
    \/ ExtractorWrites

SpecNormalize == InitNormalize /\ [][NextNormalize]_vars

RECURSIVE Count(_, _)
Count(text, token) ==
    IF text = <<>> THEN 0
    ELSE (IF Head(text) = token THEN 1 ELSE 0) + Count(Tail(text), token)

\* C14: every artifact written by a successful extraction begins with the
\* XML declaration and holds the attribute xmlns="http://www.w3.org/2000/svg"
\* exactly once, whatever the serialized markup of the output element was.
C14_Claim ==
    writer # "none" =>
        /\ Head(artifact) = XmlDeclaration[1]
        /\ Count(artifact, XmlDeclaration[1]) = 1
        /\ Count(artifact, XmlnsAttr) = 1

\* the declaration part of C14 alone does hold
C14_DeclarationOnce ==
    writer # "none" =>
        /\ Head(artifact) = XmlDeclaration[1]
        /\ Count(artifact, XmlDeclaration[1]) = 1

GateFailures == {k \in 1 .. Len(ex_log) : ex_log[k].ended /\ ex_log[k].gate # "none"}

Returned(k) == worker_said[ex_log[k].slot][1].message

GateOrder == <<"Loaded", "RuntimeReady", "OutputPresent", "StructurallyValid", "Extracted">>

\* C17: a worker reaches its readiness tests in the order Loaded,
\* RuntimeReady, OutputPresent, StructurallyValid, Extracted, each at most
\* once; it reports success only with all five passed, and a failed test is
\* the last one it evaluates.
C17_GatesInOrder ==
    \A i \in Slots :
        LET p == proc[i]
            t == p.trail
        IN /\ Len(t) <= Len(GateOrder)
           /\ \A n \in 1 .. Len(t) : t[n].gate = GateOrder[n]
           /\ \A n \in 1 .. Len(t) - 1 : t[n].ok
           /\ p.result.success => Len(t) = Len(GateOrder) /\ t[Len(t)].ok
           /\ (t # <<>> /\ ~t[Len(t)].ok) =>
                  /\ p.pc \in {"close", "exit"}
                  /\ ~p.result.success
           /\ p.pc = "write" => Len(t) = Len(GateOrder) /\ t[Len(t)].ok

C17_Witness ==
    \E i \in Slots :
        /\ proc[i].pc = "exit"
        /\ proc[i].result.success
        /\ proc[i].trail = [n \in 1 .. 5 |-> [gate |-> GateOrder[n], ok |-> TRUE]]
        /\ Len(ex_log) = 2
        /\ ex_log[1].gate = "OutputPresent"

\* C18: a worker tests for the runtime at most twice: once 3 s after the
\* page has loaded and, only when that test was negative, once more 5 s
\* later; a negative second test ends the worker with "D3.js failed to
\* load", and there is no third test.
C18_TwoStrikeRuntimeCheck ==
    \A i \in Slots :
        LET p == proc[i]
            checks == p.d3_log
        IN /\ Len(checks) <= 2
           /\ p.d3_checks = Len(checks)
           /\ Len(checks) >= 1 => checks[1].at >= p.start + 3
           /\ Len(checks) = 2 =>
                  /\ ~checks[1].available
                  /\ checks[2].at = checks[1].at + 5
           /\ (Len(checks) = 1 /\ ~checks[1].available) => p.pc = "d3_2"
           /\ (Len(checks) = 2 /\ ~checks[2].available) =>
                  /\ p.pc \in {"close", "exit"}
                  /\ p.result = Outcome(FALSE, <<"D3.js failed to load">>)
           /\ (checks # <<>> /\ checks[Len(checks)].available) =>
                  /\ Len(p.trail) >= 2
                  /\ p.trail[2] = [gate |-> "RuntimeReady", ok |-> TRUE]
           /\ p.result = Outcome(FALSE, <<"D3.js failed to load">>) =>
                  /\ Len(checks) = 2
                  /\ ~checks[2].available

C18_Witness ==
    \E i, j \in Slots :
        /\ proc[i].pc = "exit"
        /\ Len(proc[i].d3_log) = 2
        /\ ~proc[i].d3_log[2].available
        /\ proc[i].result = Outcome(FALSE, <<"D3.js failed to load">>)
        /\ worker_said[j] # <<>>
        /\ worker_said[j][1].success

(***************************************************************************)
(* Claims about the generation tasks                                       *)
(***************************************************************************)
GotEmpty(g) ==
    \/ g.pc \in {"code", "save"} /\ g.elements = "basic elements"
    \/ g.pc = "save" /\ g.d3_code = <<>>

\* C19 as stated: a generation task that got an empty result from the
\* element-listing call or from the code call returns None, and writes no
\* document for its slot.
C19_Original ==
    [][\A i \in Slots :
          (GotEmpty(gen[i]) /\ gen'[i].pc = "done") =>
              /\ gen'[i].result = PyNone
              /\ i \notin html_files']_vars

\* C19 amended: an empty result of the code call makes the task return None
\* with no document written; an empty result of the element-listing call
\* does not: the task goes on with the default "basic elements" and its
\* slot fails or succeeds by the code call alone.  A slot has a document
\* written and collected exactly when its task returned one.
C19_Amended ==
    /\ [](\A i \in Slots :
             /\ gen[i].pc \in {"code", "save"} =>
                    gen[i].elements \in {"basic elements", "listed elements"}
             /\ i \in html_files <=> gen[i].result # PyNone
             /\ gen[i].result # PyNone => gen[i].pc = "done")
    /\ [](\A j \in 1 .. Len(html_results) : html_results[j].variant_id - 1 \in html_files)
    /\ [][\A i \in Slots :
             /\ (gen[i].pc = "save" /\ gen[i].d3_code = <<>> /\ gen'[i] # gen[i]) =>
                    /\ gen'[i] = GenReturn(PyNone)
                    /\ html_files' = html_files
             /\ (gen[i].pc = "elements" /\ gen'[i].pc = "done") =>
                    gen'[i].result = PyNone]_vars

C19_Witness ==
    \E i, j \in Slots :
        /\ gen[i].pc = "save"
        /\ gen[i].d3_code = <<>>
        /\ gen[j].pc = "save"
        /\ gen[j].elements = "basic elements"
        /\ gen[j].d3_code # <<>>

\* C20: every batch invocation completes, even when one collaborator call or
\* one rendering step never responds: as long as the endpoint has delivered
\* nothing, the handler, a generation task or a worker can take a step that
\* is more than the passing of time.
C20_Claim ==
    Cardinality({i \in Slots : gen[i].pc = "hung"}) <= 1 =>
        (pc = "done" \/ ENABLED (Next /\ api_vars' # api_vars))

\* the rendering half of C20 does hold: a worker that never responds is
\* ended by the subprocess timeout, so the extraction stage is never stuck
C20_ExtractionNeverStuck ==
    pc \in {"ex_loop", "ex_wait"} => ENABLED (Next /\ api_vars' # api_vars)

(***************************************************************************)
(* Several invocations of the endpoint                                     *)
(*                                                                         *)
(* SpecBatches follows the invocations of generate_infographics that       *)
(* different server workers handle (deploy.py starts gunicorn with four)   *)
(* from the request to the collection of the generation tasks.  They share *)
(* the clock and the directory "generated".  body is what the client sent: *)
(* variant_count is the number of variants it asked for, 0 when it sent    *)
(* none.                                                                   *)
(***************************************************************************)
MaxClock == 1

Bodies == [prompt : Prompts, variant_count : {0, 2}]

\* lines 28-30: the model declares prompt and style_preference; pydantic
\* drops every other field of the body
ParsedRequest(body) == [prompt |-> body.prompt]

BatchUnchanged == UNCHANGED <<now, api_vars, cli_vars, norm_vars, fence_vars>>

\* lines 307-308
BatchRequest(b, body) ==
    /\ batches[b].pc = "idle"
    /\ batches' = [batches EXCEPT ![b] =
           [@ EXCEPT !.pc = "validate", !.body = body,
                     !.topic = Strip(ParsedRequest(body).prompt)]]
    /\ BatchUnchanged

\* lines 310-311
BatchReject(b) ==
    /\ batches[b].pc = "validate"
    /\ batches[b].topic = <<>>
    /\ batches' = [batches EXCEPT ![b].pc = "done"]
    /\ BatchUnchanged

\* lines 316-324: mkdir(parents=True, exist_ok=True) accepts a directory
\* that exists already
BatchCreateDir(b) ==
    /\ batches[b].pc = "validate"
    /\ batches[b].topic # <<>>
    /\ batches' = [batches EXCEPT ![b] =
           [@ EXCEPT !.pc = "submit",
                     !.output_dir = BatchName("api_batch", now, batches[b].topic)]]
    /\ BatchUnchanged

\* mutant: as many tasks as the client asked for
BatchSubmit_AsRequested(b) ==
    /\ batches[b].pc = "submit"
    /\ batches' = [batches EXCEPT ![b] =
           [@ EXCEPT !.pc = "collect",
                     !.tasks = IF batches[b].body.variant_count = 0 THEN Slots
                               ELSE 0 .. (batches[b].body.variant_count - 1)]]
    /\ BatchUnchanged

\* lines 331-335: executor.submit(...) for i in range(3)
BatchSubmit(b) ==
    /\ batches[b].pc = "submit"
    /\ batches' = [batches EXCEPT ![b] = [@ EXCEPT !.pc = "collect", !.tasks = Slots]]
    /\ BatchUnchanged

\* lines 339-349: as_completed yields the future of a finished task
BatchCollect(b, i) ==
    /\ batches[b].pc = "collect"
    /\ i \in batches[b].tasks \ batches[b].collected
    /\ batches' = [batches EXCEPT ![b].collected = @ \cup {i}]
    /\ BatchUnchanged

\* the loop of lines 339-349 ends when every future has been yielded
BatchCollected(b) ==
    /\ batches[b].pc = "collect"
    /\ batches[b].collected = batches[b].tasks
    /\ batches' = [batches EXCEPT ![b].pc = "done"]
    /\ BatchUnchanged

\* line 317: int(time.time()) advances
BatchTick ==
    /\ now < MaxClock
    /\ now' = now + 1
    /\ UNCHANGED <<api_vars, cli_vars, norm_vars, batch_vars, fence_vars>>

NextBatches ==
    \/ \E b \in Invocations, body \in Bodies : BatchRequest(b, body)
    \/ \E b \in Invocations : BatchReject(b)
    \/ \E b \in Invocations : BatchCreateDir(b)
    \/ \E b \in Invocations : BatchSubmit(b)
    \/ \E b \in Invocations, i \in Slots : BatchCollect(b, i)
    \/ \E b \in Invocations : BatchCollected(b)
    \/ BatchTick

SpecBatches == Init /\ [][NextBatches]_vars

Launched(b) == batches[b].pc \in {"collect", "done"} /\ batches[b].output_dir # NoFile

C22_Claim ==
    \A b, c \in Invocations :
        (b # c /\ batches[b].output_dir # NoFile /\ batches[c].output_dir # NoFile) =>
            batches[b].output_dir # batches[c].output_dir

(***************************************************************************)
(* Claims about paths, the response and the two stages                     *)
(***************************************************************************)
SlotDir(i) == <<"variant_", ToString(i + 1)>>

\* C23: the directories of distinct slots are distinct, and the document a
\* generation task wrote as well as the file an extraction worker is told to
\* write lie in the directory of their own slot, so no path is written by
\* two slots.
C23_SlotScopedPaths ==
    /\ \A i \in Slots :
           /\ gen[i].result # PyNone =>
                  /\ gen[i].result.variant_id = i + 1
                  /\ gen[i].result.directory = SlotDir(i)
                  /\ gen[i].result.html = SlotDir(i) \o <<"/infographic.html">>
           /\ proc[i].output_svg # <<>> =>
                  proc[i].output_svg = SlotDir(i) \o <<"/infographic.svg">>
           /\ proc[i].pc \notin {"off", "killed"} =>
                  proc[i].output_svg = SlotDir(i) \o <<"/infographic.svg">>
    /\ \A i, j \in Slots :
           (i # j /\ gen[i].result # PyNone /\ gen[j].result # PyNone) =>
               /\ gen[i].result.directory # gen[j].result.directory
               /\ gen[i].result.html # gen[j].result.html
    /\ \A i, j \in Slots :
           (i # j /\ proc[i].output_svg # <<>> /\ proc[j].output_svg # <<>>) =>
               proc[i].output_svg # proc[j].output_svg
    /\ \A j \in 1 .. Len(svg_results) :
           svg_results[j].svg_file = SlotDir(svg_results[j].variant_id - 1)
                                         \o <<"/infographic.svg">>

C23_Witness ==
    /\ \A i \in Slots : gen[i].result # PyNone
    /\ Len(svg_results) = 2
    /\ svg_results[1].success
    /\ svg_results[2].success
    /\ \E i \in Slots : proc[i].pc = "write"

\* C24: every response delivered with status 200 has success = true at the
\* top level and holds at least one variant entry with success = true.
C24_OkResponseHasSuccess ==
    resp.kind = "InfographicResponse" =>
        /\ resp.success = TRUE
        /\ \E j \in 1 .. Len(resp.variants) :
               /\ resp.variants[j].success = TRUE
               /\ resp.variants[j].svg_content_base64 # NoFile

C24_Witness ==
    /\ resp.kind = "InfographicResponse"
    /\ Len(resp.variants) = 3
    /\ ~resp.variants[1].success
    /\ ~resp.variants[2].success
    /\ resp.variants[3].success

(***************************************************************************)
(* The artifact read back                                                  *)
(*                                                                         *)
(* The worker writes infographic.svg through a text-mode file and the      *)
(* scheduler reads it back through another; both translate line ends.      *)
(* SpecReadBack writes and reads back every outerHTML of OuterHTMLs, and a *)
(* root element with one text child holding a line end, on a platform of   *)
(* either os.linesep.  Here artifact is the sequence of units on disk.     *)
(***************************************************************************)
LineSeps == {"\n", "\r\n"}

XmlDeclarationLine == "<?xml version=\"1.0\" encoding=\"UTF-8\"?>"

TextElement(c) == <<"<text>", c, "</text>">>

ReadBackInputs ==
    OuterHTMLs \cup {SvgElement(a, TextElement(c)) : a \in Attrs, c \in {"\n", "\r"}}

\* the characters of a text, the line end of the declaration on its own
RECURSIVE Units(_)
Units(text) ==
    IF text = <<>> THEN <<>>
    ELSE (IF Head(text) = XmlDeclaration[1]
          THEN <<XmlDeclarationLine, "\n">>
          ELSE <<Head(text)>>) \o Units(Tail(text))

\* open(output_svg, 'w', encoding='utf-8'): newline=None writes os.linesep
\* for every "\n"
RECURSIVE TextWrite(_, _)
TextWrite(units, sep) ==
    IF units = <<>> THEN <<>>
    ELSE (IF Head(units) = "\n" /\ sep = "\r\n"
          THEN <<"\r", "\n">>
          ELSE <<Head(units)>>) \o TextWrite(Tail(units), sep)

\* open(svg_file, 'r', encoding='utf-8'): newline=None reads "\r\n" and "\r"
\* as "\n"
RECURSIVE TextRead(_)
TextRead(bytes) ==
    IF bytes = <<>> THEN <<>>
    ELSE IF Head(bytes) = "\r"
         THEN IF Len(bytes) > 1 /\ bytes[2] = "\n"
              THEN <<"\n">> \o TextRead(Tail(Tail(bytes)))
              ELSE <<"\n">> \o TextRead(Tail(bytes))
         ELSE <<Head(bytes)>> \o TextRead(Tail(bytes))

\* len(unit.encode('utf-8'))
Utf8Len(unit) ==
    CASE unit = XmlDeclarationLine -> 38
      [] unit = XmlnsAttr -> 35
      [] unit = "<svg" -> 4
      [] unit = "<g/>" -> 4
      [] unit = "</svg>" -> 6
      [] unit = "<text>" -> 6
      [] unit = "</text>" -> 7
      [] OTHER -> 1

RECURSIVE Utf8Size(_)
Utf8Size(units) ==
    IF units = <<>> THEN 0 ELSE Utf8Len(Head(units)) + Utf8Size(Tail(units))

\* base64.b64decode(...).decode('utf-8'), as the clients of the endpoint do
Base64Decode(b64) == Tail(b64)

InitReadBack ==
    /\ now = 0
    /\ ApiInit
    /\ CliIdle
    /\ outer_html \in ReadBackInputs
    /\ artifact = <<>>
    /\ writer = "none"
    /\ linesep \in LineSeps
    /\ entry = NoEntry
    /\ BatchesIdle
    /\ FenceIdle

\* svg_extractor.py lines 71-98
WorkerWritesFile ==
    /\ writer = "none"
    /\ artifact' = TextWrite(Units(ExtractorArtifact(outer_html)), linesep)
    /\ writer' = "extractor"
    /\ UNCHANGED <<now, api_vars, cli_vars, outer_html, linesep, entry, batch_vars, fence_vars>>

\* svg_extractor.py lines 100-103: file_size = len(svg_content.encode('utf-8'))
\* of the serialized markup; api_headless_infographic.py lines 217-221 return
\* what follows "SUCCESS: " on the worker's last line
WorkerMessage(svg_content) ==
    <<"Success: ", ToString(Utf8Size(svg_content)), " bytes">>

\* api_headless_infographic.py lines 265-280
SchedulerReadsFile ==
    /\ writer = "extractor"
    /\ ~entry.built
    /\ LET svg_content == TextRead(artifact)
       IN entry' = [built |-> TRUE,
                    svg_content_base64 |-> Base64(svg_content),
                    file_size |-> Utf8Size(artifact),
                    message |-> WorkerMessage(CloneOuterHTML(outer_html))]
    /\ UNCHANGED <<now, api_vars, cli_vars, outer_html, artifact, writer, linesep,
                   batch_vars, fence_vars>>

NextReadBack ==
    \/ WorkerWritesFile
    \/ SchedulerReadsFile

SpecReadBack == InitReadBack /\ [][NextReadBack]_vars

\* C25: in every successful variant entry svg_content_base64 is not null,
\* decoding it gives exactly the content of the artifact file of the slot,
\* and file_size is the byte length of that content.
C25_Claim ==
    entry.built =>
        /\ entry.svg_content_base64 # NoFile
        /\ Base64Decode(entry.svg_content_base64) = artifact
        /\ entry.file_size = Utf8Size(Base64Decode(entry.svg_content_base64))

\* where os.linesep is "\n" and the markup holds no carriage return, C25
\* does hold
C25_PosixPlainMarkup ==
    (entry.built /\ linesep = "\n" /\ Count(outer_html, "\r") = 0) =>
        /\ entry.svg_content_base64 # NoFile
        /\ Base64Decode(entry.svg_content_base64) = artifact
        /\ entry.file_size = Utf8Size(artifact)

\* the slots whose document and artifact are both on disk and whose thread
\* returned its paths
CliSucceeded ==
    {i \in Slots : /\ cli[i].result.status # "None"
                   /\ i \in html_files
                   /\ svg_files[i] # NoFile}

\* C26: main_d3_parallel_headless returns success = True exactly when at
\* least one slot completed generation and extraction; the results then
\* hold exactly the succeeded slots, each once; when no slot succeeded it
\* returns success = False with an empty list.
C26_CliSuccessIffAnySlot ==
    cli_ret # <<>> =>
        LET ret == cli_ret[1]
        IN /\ ret.success <=> CliSucceeded # {}
           /\ {ret.results[k].variant_id : k \in 1 .. Len(ret.results)}
                 = {i + 1 : i \in CliSucceeded}
           /\ Len(ret.results) = Cardinality(CliSucceeded)
           /\ \A i \in Slots :
                 (i \in html_files /\ svg_files[i] # NoFile) => i \in CliSucceeded
           /\ ~ret.success => ret.results = <<>>

C26_Witness ==
    /\ cli_ret # <<>>
    /\ cli_ret[1].success
    /\ Len(cli_ret[1].results) = 2
    /\ cli_ret[1].results[1].variant_id = 3
    /\ cli_ret[1].results[2].variant_id = 1
    /\ 1 \in html_files
    /\ svg_files[1] = NoFile

C26_WitnessNone ==
    /\ cli_ret # <<>>
    /\ ~cli_ret[1].success
    /\ cli_ret[1].results = <<>>
    /\ html_files = Slots

\* C27: main_d3_parallel_headless, given an empty or whitespace-only topic,
\* rejects it before creating any output directory and before launching any
\* generation task.
C27_Claim ==
    (pc # "idle" /\ Blank(topic)) =>
        /\ output_dir = NoFile
        /\ variant_dirs = {}
        /\ \A i \in Slots : cli[i].pc = "new"
        /\ cli_results = <<>>

\* the slots whose generation task returned a document
GenSucceeded == {i \in Slots : gen[i].pc = "done" /\ gen[i].result.status # "None"}

GenFailed == {i \in Slots : gen[i].pc = "done" /\ gen[i].result.status = "None"}

Collected == {i \in Slots : gen[i].collected}

\* C28: the failure of a generation task, by an exception or by an empty
\* result, is never raised to the caller of the generation stage: while and
\* after the results are collected the result set holds exactly the
\* collected tasks that succeeded, each once, in the order of collection,
\* and the stage ends with an error only when no task succeeded.
C28_GenerationFailureContained ==
    /\ {html_results[k].variant_id : k \in 1 .. Len(html_results)}
          = {i + 1 : i \in Collected \cap GenSucceeded}
    /\ Len(html_results) = Cardinality(Collected \cap GenSucceeded)
    /\ pc = "collect" => resp = NoResponse
    /\ (pc # "collect" /\ \E i \in Slots : gen[i].pc # "new") =>
          /\ Collected = Slots
          /\ GenSucceeded = {} <=>
                resp = HTTPException(500, "Failed to generate any HTML variants")

C28_Witness ==
    /\ pc = "ex_loop"
    /\ ex_log = <<>>
    /\ gen[0].result.status = "None"
    /\ variant_dirs = {1, 2}
    /\ gen[1].result.status = "None"
    /\ 1 \in variant_dirs
    /\ 1 \notin html_files
    /\ Len(html_results) = 1
    /\ html_results[1].variant_id = 3
    /\ resp = NoResponse

\* C29: in the API pipeline no extraction worker starts before every one of
\* the three generation tasks has finished, by success or by failure,
\* whatever the interleaving of the generation threads.
C29_StagesSequenced ==
    (\/ pc \in {"ex_loop", "ex_wait"}
     \/ ex_log # <<>>
     \/ \E i \in Slots : proc[i].pc # "off"
     \/ \E i \in Slots : worker_said[i] # <<>>) =>
        \A i \in Slots : gen[i].pc = "done"

C29_Witness ==
    /\ pc = "ex_wait"
    /\ Len(ex_log) = 1
    /\ proc[1].pc = "goto"
    /\ gen[0].result.status = "None"
    /\ Len(html_results) = 2
    /\ html_results[1].variant_id = 2
    /\ html_results[2].variant_id = 3

IsPrefix(s, t) == Len(s) <= Len(t) /\ \A k \in 1 .. Len(s) : t[k] = s[k]

LogSlots(log) == [k \in 1 .. Len(log) |-> log[k].slot]

NoRepeat(s) == \A k, l \in 1 .. Len(s) : k # l => s[k] # s[l]

\* C30: within one batch a slot's document is written once, by its own
\* generation task and before the slot's extraction starts, and is not
\* written again; it is handed to at most one extraction attempt; a finished
\* generation task is not run again, and an outcome once recorded, failure
\* or success, stays as it is.
C30_WriteOnceNoRetry ==
    [][/\ \A i \in Slots :
            /\ i \in html_files => i \in html_files'
            /\ (i \notin html_files /\ i \in html_files') =>
                  /\ gen[i].pc = "save"
                  /\ gen'[i].pc = "done"
                  /\ ex_log = <<>>
                  /\ proc[i].pc = "off"
            /\ gen[i].pc = "done" =>
                  /\ gen'[i].pc = "done"
                  /\ gen'[i].result = gen[i].result
                  /\ (i \in html_files' <=> i \in html_files)
            /\ (proc[i].pc = "off" /\ proc'[i].pc # "off") =>
                  /\ i \in html_files
                  /\ \A k \in 1 .. Len(ex_log) : ex_log[k].slot # i
       /\ IsPrefix(LogSlots(ex_log), LogSlots(ex_log'))
       /\ NoRepeat(LogSlots(ex_log'))
       /\ \A k \in 1 .. Len(ex_log') : ex_log'[k].slot \in html_files'
       /\ IsPrefix(svg_results, svg_results')
       /\ NoRepeat([k \in 1 .. Len(svg_results') |-> svg_results'[k].variant_id])
       /\ IsPrefix(html_results, html_results')
      ]_vars

C30_Witness ==
    /\ pc = "done"
    /\ html_files = {1, 2}
    /\ gen[0].result.status = "None"
    /\ LogSlots(ex_log) = <<2, 1>>
    /\ Len(svg_results) = 2
    /\ svg_results[1].variant_id = 3
    /\ svg_results[1].message = TimeoutMessage
    /\ svg_results[2].success

(***************************************************************************)
(* The normalization applied again                                         *)
(*                                                                         *)
(* SpecRenormalize gives the normalization of the two in-process           *)
(* extractors every outerHTML of OuterHTMLs and every text that is already *)
(* the result of a normalization.                                          *)
(***************************************************************************)
NormalizeInputs ==
    OuterHTMLs \cup {NormalizeSvg(html) : html \in OuterHTMLs}
               \cup {ExtractorArtifact(html) : html \in OuterHTMLs}

InitRenormalize ==
    /\ now = 0
    /\ ApiInit
    /\ CliIdle
    /\ outer_html \in NormalizeInputs
    /\ artifact = <<>>
    /\ writer = "none"
    /\ linesep = "\n"
    /\ entry = NoEntry
    /\ BatchesIdle
    /\ FenceIdle

\* api_headless_infographic.py lines 114-123
ApiWrites ==
    /\ writer = "none"
    /\ artifact' = NormalizeSvg(outer_html)
    /\ writer' = "api"
    /\ UNCHANGED <<now, api_vars, cli_vars, outer_html, linesep, entry, batch_vars, fence_vars>>

NextRenormalize ==
    \/ CliWrites
    \/ ApiWrites

SpecRenormalize == InitRenormalize /\ [][NextRenormalize]_vars

\* a text that has the declaration in front and holds the namespace attribute
IsNormalized(text) ==
    /\ text # <<>>
    /\ Head(text) = XmlDeclaration[1]
    /\ Contains(text, XmlnsAttr)

\* C31: the normalization is idempotent: what it writes is normalized, and
\* given a text that is already normalized it writes that text unchanged,
\* whatever the serialized markup was.
C31_NormalizationIdempotent ==
    writer # "none" =>
        /\ IsNormalized(artifact)
        /\ IsNormalized(outer_html) => artifact = outer_html

C31_Witness ==
    /\ writer = "cli"
    /\ IsNormalized(outer_html)
    /\ Count(outer_html, "<svg") = 2
    /\ Count(outer_html, XmlnsAttr) = 2
    /\ artifact = outer_html

(***************************************************************************)
(* The fences around the collaborator's text                               *)
(*                                                                         *)
(* Every generate_content call of get_d3_code_headless_variant and of      *)
(* get_d3_code_single_frame is followed by the same five lines.            *)
(* SpecFences applies them to every text of up to MaxBlobLen tokens: the   *)
(* fence marker, a language tag, white space and other text.               *)
(***************************************************************************)
MaxBlobLen == 3

\* the marker of a markdown code block, three backquotes
Fence == "<fence>"

BlobTokens == {Fence, "html", "json", " ", "x"}

Blobs == UNION {[1 .. n -> BlobTokens] : n \in 0 .. MaxBlobLen}

\* text.startswith(prefix)
StartsWith(text, prefix) ==
    Len(text) >= Len(prefix) /\ SubSeq(text, 1, Len(prefix)) = prefix

\* text.endswith(Fence)
EndsWithFence(text) == text # <<>> /\ text[Len(text)] = Fence

\* text[n:]
DropFirst(text, n) == SubSeq(text, n + 1, Len(text))

\* gemini_api_d3_headless.py lines 188-197 (language "html") and
\* gemini_api_d3_single_frame.py lines 41-49 (language "json")
RemoveFences(text, language) ==
    LET stripped == Strip(text)
        untagged == IF StartsWith(stripped, <<Fence, language>>)
                    THEN DropFirst(stripped, 2) ELSE stripped
        opened == IF StartsWith(untagged, <<Fence>>)
                  THEN DropFirst(untagged, 1) ELSE untagged
        closed == IF EndsWithFence(opened)
                  THEN SubSeq(opened, 1, Len(opened) - 1) ELSE opened
    IN Strip(closed)

InitFences ==
    /\ now = 0
    /\ ApiInit
    /\ CliIdle
    /\ NormIdle
    /\ BatchesIdle
    /\ response_text \in Blobs
    /\ final_code = <<>>
    /\ fence_pc = "called"

FenceUnchanged ==
    UNCHANGED <<now, api_vars, cli_vars, norm_vars, batch_vars, response_text>>

\* gemini_api_d3_headless.py lines 187-199: the document is returned
HeadlessCodeReturns ==
    /\ fence_pc = "called"
    /\ final_code' = RemoveFences(response_text, "html")
    /\ fence_pc' = "headless"
    /\ FenceUnchanged

\* gemini_api_d3_single_frame.py lines 40-50: the elements are returned
SingleFrameElementsReturn ==
    /\ fence_pc = "called"
    /\ final_code' = RemoveFences(response_text, "json")
    /\ fence_pc' = "single_frame"
    /\ FenceUnchanged

NextFences ==
    \/ HeadlessCodeReturns
    \/ SingleFrameElementsReturn

SpecFences == InitFences /\ [][NextFences]_vars

\* C32: whatever text the collaborator returned, the text its wrapper hands
\* on neither begins with a fence marker, with or without a language tag,
\* nor ends with one.
C32_Claim ==
    fence_pc # "called" =>
        /\ ~StartsWith(final_code, <<Fence>>)
        /\ ~EndsWithFence(final_code)

\* the tokens between the first and the last of a text
Interior(text) == SubSeq(text, 2, Len(text) - 1)

\* a text wrapped in one pair of fences at most, with no marker inside, does
\* come out without a marker at either end
C32_SingleWrapping ==
    (fence_pc # "called" /\ ~Contains(Interior(Strip(response_text)), Fence)) =>
        /\ ~StartsWith(final_code, <<Fence>>)
        /\ ~EndsWithFence(final_code)

\* C33: in the API pipeline the stagger delay goes by the position in the
\* generated-documents list, not by the slot index: the attempt at position
\* k starts no earlier than 3 * k seconds after the attempt before it has
\* ended, so two consecutive starts are at least 3 seconds apart.
C33_StaggerPerPosition ==
    /\ \A k \in 1 .. Len(ex_log) :
           /\ ex_log[k].pos < Len(html_results)
           /\ html_results[ex_log[k].pos + 1].variant_id = ex_log[k].slot + 1
    /\ \A k \in 2 .. Len(ex_log) :
           /\ ex_log[k - 1].ended
           /\ ex_log[k].pos >= 1
           /\ ex_log[k].start >= ex_log[k - 1].end + StaggerAPI * ex_log[k].pos
           /\ ex_log[k].start >= ex_log[k - 1].start + StaggerAPI

C33_Witness ==
    /\ Len(ex_log) = 3
    /\ LogSlots(ex_log) = <<2, 0, 1>>
    /\ ex_log[2].end > ex_log[2].start
    /\ ex_log[2].start = ex_log[1].end + StaggerAPI
    /\ ex_log[3].start = ex_log[2].end + 2 * StaggerAPI

\* C34: at the end of a batch the artifact file of a slot exists only if the
\* slot's outcome is success; a slot reported as failure, a timeout that
\* overtakes the worker after its write included, has left no artifact.
C34_Claim ==
    pc = "done" =>
        \A k \in 1 .. Len(svg_results) :
            ~svg_results[k].success =>
                svg_files[svg_results[k].variant_id - 1] = NoFile

\* C35: in an extraction worker, once the browser has been launched,
\* browser.close is executed exactly once on every exit path, by success, by
\* a failed readiness test or by an exception, before the worker returns
\* its outcome; it is not executed before the exit path is taken.
C35_TeardownOnce ==
    \A i \in Slots :
        LET p == proc[i]
        IN /\ p.pc = "exit" =>
                 IF p.browser = "none"
                 THEN /\ p.closes = 0
                      /\ Head(p.result.message) = "Browser launch failed for "
                 ELSE /\ p.browser = "closed"
                      /\ p.closes = 1
           /\ p.pc # "exit" => p.closes = 0 /\ p.browser # "closed"
           /\ p.pc \in {"goto", "d3_1", "d3_2", "selector", "validate",
                        "serialize", "write", "close"} => p.browser = "open"

C35_Witness ==
    \E i, j, k \in Slots :
        /\ proc[i].pc = "exit"
        /\ proc[i].closes = 1
        /\ proc[i].result.success
        /\ worker_said[j] # <<>>
        /\ worker_said[j][1].message = <<"Invalid SVG content">>
        /\ worker_said[k] # <<>>
        /\ worker_said[k][1].message = ExtractionFailed(k, "OSError")

\* the same for the in-process worker of the CLI: a thread that has
\* launched its browser reaches its result only through browser.close
C35_CliTeardown ==
    [][\A i \in Slots :
          (cli[i].pc \in CliExtractPcs \ {"launch"} /\ cli'[i].pc = "done") =>
              cli[i].pc = "close"]_vars

C37_Claim ==
    entry.built =>
        entry.message = <<"Success: ", ToString(entry.file_size), " bytes">>

\* what does hold: the file is larger than the count of the message by the
\* declaration the worker wrote in front, and by one byte for each line end
\* where os.linesep has two
C37_DeclarationNotCounted ==
    entry.built =>
        \E n \in 0 .. entry.file_size :
            /\ entry.message = <<"Success: ", ToString(n), " bytes">>
            /\ entry.file_size - n =
                  Utf8Len(XmlDeclarationLine) + Count(artifact, "\n")
                  + (IF linesep = "\r\n" THEN Count(artifact, "\n") ELSE 0)
                  - Count(outer_html, "\n")

\* C38: the error the endpoint delivers is that of the stage that failed and
\* is not rewritten by the generic handler: an empty topic gives 400 "Prompt
\* cannot be empty", no generated document gives 500 "Failed to generate any
\* HTML variants", no successful extraction gives 500 "Failed to extract any
\* SVGs", and 500 "Internal server error" is delivered only when something
\* else was raised, which is the mkdir of the batch directory failing.
C38_ErrorByStage ==
    pc = "done" =>
        IF Blank(request.prompt)
        THEN resp = HTTPException(400, "Prompt cannot be empty")
        ELSE IF output_dir = NoFile
        THEN resp = HTTPException(500, "Internal server error")
        ELSE IF html_results = <<>>
        THEN resp = HTTPException(500, "Failed to generate any HTML variants")
        ELSE IF \A k \in 1 .. Len(svg_results) : ~svg_results[k].success
        THEN resp = HTTPException(500, "Failed to extract any SVGs")
        ELSE resp.kind = "InfographicResponse"

C38_Witness ==
    /\ pc = "done"
    /\ resp = HTTPException(500, "Failed to extract any SVGs")
    /\ Len(svg_results) = 2
    /\ svg_results[1].message = TimeoutMessage
    /\ Head(svg_results[2].message) = "Subprocess failed: "

C38_WitnessEmpty ==
    /\ pc = "done"
    /\ request.prompt = <<" ">>
    /\ resp = HTTPException(400, "Prompt cannot be empty")

C38_WitnessUnexpected ==
    /\ pc = "done"
    /\ resp = HTTPException(500, "Internal server error")
    /\ topic # <<>>
    /\ output_dir = NoFile
    /\ \A i \in Slots : gen[i].pc = "new"

====
